---------------------------- MODULE Spec2Model ----------------------------
(***************************************************************************)
(* A model of milochristiansen/timeclock: the time log text format         *)
(* (timelog/timelog.go), the period deriver and the code tree             *)
(* (timelog/calc.go) and the week aggregation of the report command       *)
(* (main.go).                                                              *)
(*                                                                         *)
(* Text is a sequence of one-character strings.  A timestamp is the number *)
(* of minutes since 1970/01/01 00:00 local time (the log has minute        *)
(* precision).  A duration is a number of minutes.                         *)
(***************************************************************************)
EXTENDS Integers, Sequences, FiniteSets, TLC

VARIABLES
    log,      \* TimeLog: the sequence of events [At, Code, Desc] of the run
    text,     \* the text of the log file
    origin,   \* where text comes from: "none", "format" (TimeLog.Format) or "raw"
    parsed,   \* the result of parseTimeLog(text): [err, line, log]
    op,       \* the last operation applied
    arg,      \* the arguments of the last operation
    pre,      \* the receiver / input as it was before the last operation
    out,      \* the value the last operation returned
    tree,     \* the timecode tree: the Self of the node at each path of segments
    periods,  \* the periods of the report
    heap,     \* the Event objects that pointers refer to: address -> Event
    ptrs,     \* a TimeLog as Go holds it: the sequence of the addresses (*Event)
    runs      \* the number of runs of the program on the log file so far

vars == <<log, text, origin, parsed, op, arg, pre, out, tree, periods, heap, ptrs, runs>>

-----------------------------------------------------------------------------
(* Bounds *)

\* the longest log the model sorts and queries
MaxLog == 3

\* the longest log the model writes to the file
MaxFileLog == 2

\* the longest list of known timecodes
MaxCodes == 3

\* the longest list of periods filtered by timecode
MaxPeriods == 2

\* the longest list of periods aggregated by week
MaxWeekPeriods == 3

\* the longest raw input text, in tokens (a date counts as one token)
MaxTokens == 3

-----------------------------------------------------------------------------
(* Sequences *)

RECURSIVE Concat(_)
Concat(ss) == IF ss = <<>> THEN <<>> ELSE Head(ss) \o Concat(Tail(ss))

Repeat(c, n) == [i \in 1..n |-> c]

Max(S) == CHOOSE x \in S : \A y \in S : y <= x

SeqsUpTo(S, n) == UNION {[1..k -> S] : k \in 0..n}

\* the i first elements of s
Prefix(s, i) == SubSeq(s, 1, i)

Range(s) == {s[i] : i \in 1..Len(s)}

-----------------------------------------------------------------------------
(* Wall-clock time: the Go time.Time operations the program uses *)

IsLeap(y) == (y % 4 = 0 /\ y % 100 # 0) \/ y % 400 = 0

DaysIn(y, m) ==
    IF m = 2 THEN (IF IsLeap(y) THEN 29 ELSE 28)
    ELSE IF m \in {4, 6, 9, 11} THEN 30 ELSE 31

\* days since 1970/01/01 of a civil date
DaysFromCivil(y, m, d) ==
    LET yy  == IF m <= 2 THEN y - 1 ELSE y
        era == yy \div 400
        yoe == yy - era * 400
        mp  == IF m > 2 THEN m - 3 ELSE m + 9
        doy == (153 * mp + 2) \div 5 + d - 1
        doe == yoe * 365 + yoe \div 4 - yoe \div 100 + doy
    IN  era * 146097 + doe - 719468

\* the civil date [y, m, d] of a day number
CivilFromDays(z0) ==
    LET z   == z0 + 719468
        era == z \div 146097
        doe == z - era * 146097
        yoe == (doe - doe \div 1460 + doe \div 36524 - doe \div 146096) \div 365
        doy == doe - (365 * yoe + yoe \div 4 - yoe \div 100)
        mp  == (5 * doy + 2) \div 153
        d   == doy - (153 * mp + 2) \div 5 + 1
        m   == IF mp < 10 THEN mp + 3 ELSE mp - 9
        y   == yoe + era * 400 + (IF m <= 2 THEN 1 ELSE 0)
    IN  [y |-> y, m |-> m, d |-> d]

\* time.Date(y, m, d, h, mi, 0, 0, time.Local)
Date(y, m, d, h, mi) == (DaysFromCivil(y, m, d) * 24 + h) * 60 + mi

DayOf(t) == t \div (24 * 60)
HourOf(t) == (t % (24 * 60)) \div 60
MinuteOf(t) == t % 60

\* t.Weekday(): Sunday is 0 (1970/01/01 was a Thursday)
Weekday(t) == (DayOf(t) + 4) % 7

\* t.ISOWeek(): the year and the week of the Thursday of t's week
ISOWeek(t) ==
    LET d    == 4 - Weekday(t)
        thu  == DayOf(t) + (IF d = 4 THEN -3 ELSE d)
        year == CivilFromDays(thu).y
        yday == thu - DaysFromCivil(year, 1, 1)
    IN  <<year, yday \div 7 + 1>>

Digits == <<"0", "1", "2", "3", "4", "5", "6", "7", "8", "9">>
DigitSet == {Digits[i] : i \in 1..10}
DigitVal(c) == (CHOOSE i \in 1..10 : Digits[i] = c) - 1

\* n as w decimal digits, zero padded
RECURSIVE Itoa(_, _)
Itoa(n, w) == IF w = 0 THEN <<>> ELSE Itoa(n \div 10, w - 1) \o <<Digits[(n % 10) + 1]>>

RECURSIVE Atoi(_)
Atoi(s) == IF s = <<>> THEN 0 ELSE Atoi(SubSeq(s, 1, Len(s) - 1)) * 10 + DigitVal(s[Len(s)])

\* a 24 hour clock in the layout: "2006/01/02 15:04PM"
FormatTime24(t) ==
    LET c == CivilFromDays(DayOf(t))
        h == HourOf(t)
    IN  Itoa(c.y, 4) \o <<"/">> \o Itoa(c.m, 2) \o <<"/">> \o Itoa(c.d, 2) \o <<" ">>
        \o Itoa(h, 2) \o <<":">> \o Itoa(MinuteOf(t), 2)
        \o <<(IF h >= 12 THEN "P" ELSE "A"), "M">>

\* t.Format(TimeFormat), TimeFormat = "2006/01/02 03:04PM"
FormatTime(t) ==
    LET c   == CivilFromDays(DayOf(t))
        h   == HourOf(t)
        h12 == IF h % 12 = 0 THEN 12 ELSE h % 12
    IN  Itoa(c.y, 4) \o <<"/">> \o Itoa(c.m, 2) \o <<"/">> \o Itoa(c.d, 2) \o <<" ">>
        \o Itoa(h12, 2) \o <<":">> \o Itoa(MinuteOf(t), 2)
        \o <<(IF h >= 12 THEN "P" ELSE "A"), "M">>

\* time.ParseInLocation(TimeFormat, date, time.Local) on the groups parseDate
\* has collected: the layout wants 4/2/2 2:2 digits and an upper case AM or PM,
\* and month, day, hour and minute in range.
ParseInLocation(g) ==
    LET y  == Atoi(g.y)
        m  == Atoi(g.m)
        d  == Atoi(g.d)
        h  == Atoi(g.h)
        mi == Atoi(g.mi)
        shape == /\ Len(g.y) = 4 /\ Len(g.m) = 2 /\ Len(g.d) = 2
                 /\ Len(g.h) = 2 /\ Len(g.mi) = 2
                 /\ g.ap \in {<<"A">>, <<"P">>} /\ g.mm = <<"M">>
        range == /\ m \in 1..12 /\ d >= 1 /\ d <= DaysIn(y, m)
                 /\ h <= 12 /\ mi <= 59
        h24   == IF g.ap = <<"P">> THEN (IF h < 12 THEN h + 12 ELSE h)
                 ELSE (IF h = 12 THEN 0 ELSE h)
    IN  IF shape /\ range
        THEN [ok |-> TRUE, t |-> Date(y, m, d, h24, mi)]
        ELSE [ok |-> FALSE, t |-> 0]

-----------------------------------------------------------------------------
(* The cursor: lex.CharReader over the text s.  cr = [i, L]: the index of   *)
(* the current character and the current line.                              *)

NewCharReader == [i |-> 1, L |-> 1]

EOF(s, cr) == cr.i > Len(s)

\* cr.C; at the end of input no character is current
C(s, cr) == IF EOF(s, cr) THEN "EOF" ELSE s[cr.i]

Match(s, cr, chars) == ~EOF(s, cr) /\ s[cr.i] \in chars

Next(s, cr) ==
    IF EOF(s, cr) THEN cr
    ELSE [i |-> cr.i + 1, L |-> IF s[cr.i] = "\n" THEN cr.L + 1 ELSE cr.L]

RECURSIVE Eat(_, _, _)
Eat(s, cr, chars) == IF Match(s, cr, chars) THEN Eat(s, Next(s, cr), chars) ELSE cr

RECURSIVE EatUntil(_, _, _)
EatUntil(s, cr, chars) ==
    IF ~EOF(s, cr) /\ ~Match(s, cr, chars) THEN EatUntil(s, Next(s, cr), chars) ELSE cr

RECURSIVE ReadUntil(_, _, _, _)
ReadUntil(s, cr, chars, buf) ==
    IF ~EOF(s, cr) /\ ~Match(s, cr, chars)
    THEN ReadUntil(s, Next(s, cr), chars, Append(buf, s[cr.i]))
    ELSE [cr |-> cr, buf |-> buf]

RECURSIVE ReadLimit(_, _, _, _, _)
ReadLimit(s, cr, chars, buf, limit) ==
    IF limit > 0 /\ Match(s, cr, chars)
    THEN ReadLimit(s, Next(s, cr), chars, Append(buf, s[cr.i]), limit - 1)
    ELSE [cr |-> cr, buf |-> buf]

ReadMatchLimit(s, cr, chars, limit) ==
    LET r == ReadLimit(s, cr, chars, <<>>, limit)
    IN  [ok |-> Len(r.buf) >= 1, cr |-> r.cr, buf |-> r.buf]

-----------------------------------------------------------------------------
(* timelog/timelog.go: the parser *)

WS == {" ", "\t"}

\* for i := len(ln) - 1; i > 0; i-- { if ln[i] is not blank {break}; ln = ln[:i] }
RECURSIVE TrimTrailing(_)
TrimTrailing(ln) ==
    IF Len(ln) - 1 > 0 /\ ln[Len(ln)] \in WS
    THEN TrimTrailing(SubSeq(ln, 1, Len(ln) - 1))
    ELSE ln

\* for i := 0; i < len(ln); i++ { if ln[0] is not blank {break}; ln = ln[1:] }
RECURSIVE TrimLeading(_, _)
TrimLeading(ln, i) ==
    IF i < Len(ln) /\ ln[1] \in WS THEN TrimLeading(Tail(ln), i + 1) ELSE ln

\* the end of the input is not looked for
trimmedNoEnd(s, r) ==
    [err |-> "", line |-> 0, cr |-> r.cr, str |-> TrimLeading(TrimTrailing(r.buf), 0)]

\* the text read, trimmed, or UnexpectedEnd when the input ran out; r is what
\* cr.ReadUntil returned
trimmedOrEnd(s, r) ==
    IF EOF(s, r.cr)
    THEN [err |-> "UnexpectedEnd", line |-> r.cr.L, cr |-> r.cr, str |-> <<>>]
    ELSE [err |-> "", line |-> 0, cr |-> r.cr, str |-> TrimLeading(TrimTrailing(r.buf), 0)]

readUntilTrimmed(s, cr, chars) == trimmedOrEnd(s, ReadUntil(s, cr, chars, <<>>))

\* the steps of parseDate: a group of digits or letters read with
\* cr.ReadMatchLimit(chars, date, limit), or a separator tested with
\* cr.Match(chars) and stepped over with cr.Next()
DateSteps == <<
    [read |-> TRUE,  chars |-> DigitSet, limit |-> 4],
    [read |-> FALSE, chars |-> {"/", "-", "."}, limit |-> 0],
    [read |-> TRUE,  chars |-> DigitSet, limit |-> 2],
    [read |-> FALSE, chars |-> {"/", "-", "."}, limit |-> 0],
    [read |-> TRUE,  chars |-> DigitSet, limit |-> 2],
    [read |-> FALSE, chars |-> {" "}, limit |-> 0],
    [read |-> TRUE,  chars |-> DigitSet, limit |-> 2],
    [read |-> FALSE, chars |-> {":"}, limit |-> 0],
    [read |-> TRUE,  chars |-> DigitSet, limit |-> 2],
    [read |-> TRUE,  chars |-> {"a", "p", "A", "P"}, limit |-> 1],
    [read |-> TRUE,  chars |-> {"m", "M"}, limit |-> 1] >>

BadDate(cr) == [err |-> "BadDate", line |-> cr.L, cr |-> cr, t |-> 0]

\* the date is read: time.ParseInLocation decides; g are the groups read
dateParsed(cr, tm) ==
    IF tm.ok THEN [err |-> "", line |-> 0, cr |-> cr, t |-> tm.t]
    ELSE [err |-> "ParseError", line |-> 0, cr |-> cr, t |-> 0]

RECURSIVE dateStep(_, _, _, _), dateGroup(_, _, _, _)
\* parseDate from its i-th step on, g the groups read so far
dateStep(s, cr, i, g) ==
    IF i > Len(DateSteps)
    THEN dateParsed(cr, ParseInLocation([y |-> g[1], m |-> g[2], d |-> g[3], h |-> g[4],
                                         mi |-> g[5], ap |-> g[6], mm |-> g[7]]))
    ELSE IF DateSteps[i].read
         THEN dateGroup(s, ReadMatchLimit(s, cr, DateSteps[i].chars, DateSteps[i].limit), i, g)
    ELSE IF ~Match(s, cr, DateSteps[i].chars) THEN BadDate(cr)
    ELSE dateStep(s, Next(s, cr), i + 1, g)

\* r is what cr.ReadMatchLimit returned in step i
dateGroup(s, r, i, g) ==
    IF ~r.ok THEN BadDate(r.cr) ELSE dateStep(s, r.cr, i + 1, Append(g, r.buf))

parseDate(s, cr) == dateStep(s, cr, 1, <<>>)

Failed(err, line) == [err |-> err, line |-> line, log |-> <<>>]

EventError(err, line, cr) == [err |-> err, line |-> line, cr |-> cr, ev |-> <<>>]

\* the description is read (desc): the event is complete
eventDone(s, t, code, desc) ==
    IF desc.err # "" THEN EventError(desc.err, desc.line, desc.cr)
    ELSE [err |-> "", line |-> 0, cr |-> Next(s, desc.cr),
          ev |-> [At |-> t, Code |-> code, Desc |-> desc.str]]

\* the white space before the description is eaten (the cursor is c3)
eventDesc(s, t, code, c3) ==
    IF EOF(s, c3) THEN EventError("UnexpectedEnd", c3.L, c3)
    ELSE eventDone(s, t, code, readUntilTrimmed(s, c3, {"\n"}))

\* the code block is read (code)
eventCode(s, t, code) ==
    IF code.err # "" THEN EventError(code.err, code.line, code.cr)
    ELSE IF C(s, code.cr) = "\n" THEN EventError("Malformed", code.cr.L, code.cr)
    ELSE eventDesc(s, t, code.str, Eat(s, Next(s, code.cr), WS))

\* the white space after the date is eaten (the cursor is c1)
eventAfterDate(s, t, c1) ==
    IF EOF(s, c1) THEN EventError("UnexpectedEnd", c1.L, c1)
    ELSE IF C(s, c1) = "["
         THEN eventCode(s, t, readUntilTrimmed(s, Eat(s, Next(s, c1), WS), {"]"}))
    ELSE eventDesc(s, t, <<>>, Eat(s, c1, WS))

\* the date is parsed (date)
eventDate(s, date) ==
    IF date.err # "" THEN EventError(date.err, date.line, date.cr)
    ELSE eventAfterDate(s, date.t, Eat(s, date.cr, WS))

\* one event line, the cursor on its first character: the event and the cursor
\* after its newline, or the error
parseEvent(s, cr) == eventDate(s, parseDate(s, cr))

RECURSIVE parseLoop(_, _, _), parseLine(_, _, _), parseNext(_, _, _)
\* for !cr.EOF { ... }
parseLoop(s, cr, acc) ==
    IF EOF(s, cr) THEN [err |-> "", line |-> 0, log |-> acc]
    ELSE parseLine(s, Eat(s, cr, WS), acc)

\* the body of the loop, the leading white space eaten
parseLine(s, cr, acc) ==
    IF C(s, cr) = "\n" THEN parseLoop(s, Next(s, cr), acc)
    ELSE IF C(s, cr) = "#" THEN parseLoop(s, Next(s, EatUntil(s, cr, {"\n"})), acc)
    ELSE parseNext(s, parseEvent(s, cr), acc)

\* the event e is parsed: log = append(log, current)
parseNext(s, e, acc) ==
    IF e.err # "" THEN Failed(e.err, e.line) ELSE parseLoop(s, e.cr, Append(acc, e.ev))

\* ParseTimeLogString(input)
parseTimeLog(s) == parseLoop(s, NewCharReader, <<>>)

-----------------------------------------------------------------------------
(* timelog/timelog.go: the serializer *)

Space == {" ", "\t", "\n", "\r"}

\* strings.TrimSpace(code) == ""
IsBlank(code) == \A i \in 1..Len(code) : code[i] \in Space

Codes(l) == {l[i].Code : i \in {j \in 1..Len(l) : ~IsBlank(l[j].Code)}}

CodeLen(l) == IF Codes(l) = {} THEN 0 ELSE Max({Len(c) : c \in Codes(l)})

\* fmt.Sprintf("%*s", width, str): str padded with spaces on the left
PadLeft(str, width) ==
    IF Len(str) >= width THEN str ELSE Repeat(" ", width - Len(str)) \o str

FormatEvent(e, cl) ==
    FormatTime(e.At) \o <<" ", "[">> \o PadLeft(e.Code, cl) \o <<"]", " ">>
        \o e.Desc \o <<"\n">>

Format(l) == Concat([i \in 1..Len(l) |-> FormatEvent(l[i], CodeLen(l))])

-----------------------------------------------------------------------------
(* timelog/calc.go: the timecode tree.  A tree is the function from the     *)
(* path of each node (the segments from the root to it) to the node's Self; *)
(* the Kids of a node are the paths one segment longer.                     *)

\* &TimecodeTreeNode{Kids: map[string]*TimecodeTreeNode{}, Self: "-"}
NewTree == (<<>> :> <<"-">>)

\* strings.Split(code, ":")
RECURSIVE Split(_)
Split(code) ==
    LET k == CHOOSE i \in 1..(Len(code) + 1) :
                (i = Len(code) + 1 \/ code[i] = ":") /\ \A j \in 1..(i - 1) : code[j] # ":"
    IN  IF k > Len(code) THEN <<code>>
        ELSE <<Prefix(code, k - 1)>> \o Split(SubSeq(code, k + 1, Len(code)))

\* the part alone
SofarPart(parts, i) == parts[i]

\* sofar after the i first parts
RECURSIVE Sofar(_, _)
Sofar(parts, i) ==
    IF i = 1 THEN parts[1] ELSE Sofar(parts, i - 1) \o <<":">> \o parts[i]

\* the inner loop of GenerateTimecodeTree: the nodes of one code, from part i
RECURSIVE InsertParts(_, _, _)
InsertParts(t, parts, i) ==
    IF i > Len(parts) THEN t
    ELSE IF Prefix(parts, i) \in DOMAIN t THEN InsertParts(t, parts, i + 1)
    ELSE InsertParts(t @@ (Prefix(parts, i) :> Sofar(parts, i)), parts, i + 1)

RECURSIVE InsertCodes(_, _)
InsertCodes(t, codes) ==
    IF codes = <<>> THEN t
    ELSE InsertCodes(InsertParts(t, Split(Head(codes)), 1), Tail(codes))

GenerateTimecodeTree(codes) == InsertCodes(NewTree, codes)

\* n.Kids of the node at path
Kids(t, path) == {q \in DOMAIN t : Len(q) = Len(path) + 1 /\ Prefix(q, Len(path)) = path}

\* the orders in which a range over the map n.Kids may visit the kids
KidOrders(t, path) ==
    LET ks == Kids(t, path)
    IN  {o \in [1..Cardinality(ks) -> ks] : \A i, j \in DOMAIN o : i # j => o[i] # o[j]}

\* the walk down from the root by the parts of code: is every part a kid?
Found(t, code) == \A i \in 1..Len(Split(code)) : Prefix(Split(code), i) \in DOMAIN t

RECURSIVE FilterOutPeriods(_, _)
FilterOutPeriods(p, code) ==
    IF p = <<>> THEN <<>>
    ELSE IF Head(p).Code # code THEN <<Head(p)>> \o FilterOutPeriods(Tail(p), code)
    ELSE FilterOutPeriods(Tail(p), code)

RECURSIVE FilterInPeriods(_, _)
FilterInPeriods(p, code) ==
    IF p = <<>> THEN <<>>
    ELSE IF Head(p).Code = code THEN <<Head(p)>> \o FilterInPeriods(Tail(p), code)
    ELSE FilterInPeriods(Tail(p), code)

\* the kids are not visited
filterOutSelfOnly(t, p, path) == {FilterOutPeriods(p, t[path])}

\* the results filterOutPeriodsChildren(p, n) may return, n the node at path:
\* one for each order of visiting the kids
RECURSIVE filterOutPeriodsChildren(_, _, _), filterOutKids(_, _, _)
filterOutPeriodsChildren(t, p, path) ==
    UNION {{FilterOutPeriods(q, t[path]) : q \in filterOutKids(t, p, o)} :
            o \in KidOrders(t, path)}

filterOutKids(t, p, o) ==
    IF o = <<>> THEN {p}
    ELSE UNION {filterOutKids(t, q, Tail(o)) : q \in filterOutPeriodsChildren(t, p, Head(o))}

\* the periods of the root's Self are removed as well
FilterOutWithRoot(p, code, t) ==
    IF ~Found(t, code) THEN {<<>>}
    ELSE {FilterOutPeriods(r, t[<<>>]) : r \in filterOutPeriodsChildren(t, p, Split(code))}

\* the results FilterOutPeriodsChildren(p, code, codetree) may return
FilterOutPeriodsChildren(p, code, t) ==
    IF ~Found(t, code) THEN {<<>>} ELSE filterOutPeriodsChildren(t, p, Split(code))

\* the kids are not visited
filterInSelfOnly(t, p, path) == {FilterInPeriods(p, t[path])}

\* the results filterInPeriodsChildren(p, n) may return, n the node at path
RECURSIVE filterInPeriodsChildren(_, _, _), filterInKids(_, _, _)
filterInPeriodsChildren(t, p, path) ==
    UNION {{a \o FilterInPeriods(p, t[path]) : a \in filterInKids(t, p, o)} :
            o \in KidOrders(t, path)}

filterInKids(t, p, o) ==
    IF o = <<>> THEN {<<>>}
    ELSE {a \o b : a \in filterInPeriodsChildren(t, p, Head(o)),
                   b \in filterInKids(t, p, Tail(o))}

\* a code that is not found selects every period
FilterInUnknownAll(p, code, t) ==
    IF ~Found(t, code) THEN {p} ELSE filterInPeriodsChildren(t, p, Split(code))

\* the results FilterInPeriodsChildren(p, code, codetree) may return
FilterInPeriodsChildren(p, code, t) ==
    IF ~Found(t, code) THEN {<<>>} ELSE filterInPeriodsChildren(t, p, Split(code))

-----------------------------------------------------------------------------
(* The log file: events are written with Format and read back with          *)
(* ParseTimeLogString (main.go loads, changes and rewrites the whole file)  *)

None == [err |-> "none", line |-> 0, log |-> <<>>]

\* the events of the logs the model writes
FileTimes == {Date(2023, 7, 6, 17, 36), Date(2024, 12, 31, 0, 5)}
FileCodes == {<<>>, <<"A">>, <<"A", ":", "B">>, <<" ", "A">>}
FileDescs == {<<>>, <<"d">>, <<"[", "d", " ">>}
FileEvents == [At : FileTimes, Code : FileCodes, Desc : FileDescs]

\* raw file contents: token sequences, the token "D" standing for a date
Tokens == {"D", " ", "[", "]", "x", "\n"}
ExpandToken(tk) == IF tk = "D" THEN FormatTime(Date(2023, 7, 6, 9, 36)) ELSE <<tk>>
Expand(ts) == Concat([i \in 1..Len(ts) |-> ExpandToken(ts[i])])
Unclosed ==
    FormatTime(Date(2023, 7, 6, 9, 36))
        \o <<" ", "[", "U", "n", "c", "l", "o", "s", "e", "d", "\n">>

\* the groups and separators of the date "2023/07/06 09:36AM"
GoodDate ==
    [y |-> <<"2", "0", "2", "3">>, s1 |-> <<"/">>, m |-> <<"0", "7">>, s2 |-> <<"/">>,
     d |-> <<"0", "6">>, sp |-> <<" ">>, h |-> <<"0", "9">>, c |-> <<":">>,
     mi |-> <<"3", "6">>, ap |-> <<"A">>, mm |-> <<"M">>]

\* what the model writes in the place of each group or separator
DateAlternatives ==
    [y  |-> {<<"2", "0", "2">>, <<"2", "0", "2", "3", "3">>},
     s1 |-> {<<"-">>, <<".">>, <<"_">>},
     m  |-> {<<"7">>, <<"0", "7", "1">>, <<"1", "3">>},
     s2 |-> {<<"-">>, <<",">>},
     d  |-> {<<"6">>, <<"0", "6", "1">>, <<"3", "2">>},
     sp |-> {<<>>, <<"\t">>},
     h  |-> {<<"9">>, <<"0", "9", "1">>, <<"1", "2">>},
     c  |-> {<<>>, <<".">>},
     mi |-> {<<"6">>, <<"3", "6", "1">>, <<"6", "0">>},
     ap |-> {<<"a">>, <<"P">>},
     mm |-> {<<"m">>}]

\* the dates that differ from GoodDate in one group or separator
DateVariants ==
    UNION {{[GoodDate EXCEPT ![f] = a] : a \in DateAlternatives[f]} :
            f \in DOMAIN DateAlternatives}

DateString(v) ==
    v.y \o v.s1 \o v.m \o v.s2 \o v.d \o v.sp \o v.h \o v.c \o v.mi \o v.ap \o v.mm

\* an event line with the date v, alone or after a blank line
DateLine(v) == DateString(v) \o <<" ", "x", "\n">>
DateTexts(v) == {DateLine(v), <<"\n">> \o DateLine(v)}

\* the beginnings of the date that are not the whole date
TruncatedDates ==
    {Prefix(DateString(GoodDate), k) : k \in 1..(Len(DateString(GoodDate)) - 1)}

\* event lines that the end of the input cuts short after the date
StalledLines ==
    {DateString(GoodDate) \o r :
        r \in {<<" ">>, <<" ", "[", "x">>, <<" ", "[", "x", "]", " ", "d">>, <<" ", "d">>}}

\* a last line cut short, alone or after an event line
CutTexts == UNION {{l, DateLine(GoodDate) \o l} : l \in TruncatedDates \cup StalledLines}

\* event lines with spaces and tabs around the code and the description
PaddedLines ==
    {DateString(GoodDate) \o r :
        r \in {<<" ", "[", " ", "\t", "x", "\t", " ", "]", " ", "\t", "d", " ", "\t", "\n">>,
               <<"\t", "[", "\t", "]", "\t", "d", " ", "x", " ", "\n">>}}

\* event lines with nothing but spaces and tabs for a description
EmptyDescLines ==
    {DateString(GoodDate) \o r :
        r \in {<<" ", "[", "x", "]", " ", "\t", "\n">>, <<" ", "\t", " ", "\n">>}}

\* an event whose code block is closed on the next line
SplitCodeLines ==
    {DateString(GoodDate) \o r :
        r \in {<<" ", "[", "x", "\n", "y", "]", " ", "d", "\n">>,
               <<" ", "[", "x", " ", "\n", "]", "\n">>}}

RawTexts ==
    {Expand(ts) : ts \in SeqsUpTo(Tokens, MaxTokens)} \cup {Unclosed}
        \cup UNION {DateTexts(v) : v \in DateVariants}
        \cup CutTexts
        \cup PaddedLines \cup EmptyDescLines \cup SplitCodeLines

InitFile ==
    /\ log = <<>>
    /\ text = <<>>
    /\ origin = "none"
    /\ parsed = None
    /\ op = "init"
    /\ arg = <<>>
    /\ pre = <<>>
    /\ out = <<>>
    /\ tree = NewTree
    /\ periods = <<>>
    /\ heap = <<>>
    /\ ptrs = <<>>
    /\ runs = 0

\* a log is built event by event, in any order (a TimeLog is a slice a caller
\* fills; the parser fills it in file order)
AppendEvent(e, max) ==
    /\ op = "init"
    /\ Len(log) < max
    /\ log' = Append(log, e)
    /\ UNCHANGED <<text, origin, parsed, op, arg, pre, out, tree, periods, heap, ptrs, runs>>

\* the log is dumped to the file
WriteLog ==
    /\ op = "init"
    /\ text' = Format(log)
    /\ origin' = "format"
    /\ op' = "Format"
    /\ UNCHANGED <<log, parsed, arg, pre, out, tree, periods, heap, ptrs, runs>>

\* a file somebody else wrote is loaded
ReadFile(t) ==
    /\ op = "init"
    /\ log = <<>>
    /\ text' = t
    /\ origin' = "raw"
    /\ op' = "Read"
    /\ UNCHANGED <<log, parsed, arg, pre, out, tree, periods, heap, ptrs, runs>>

\* the file's text is parsed
ParseFile ==
    /\ op \in {"Format", "Read"}
    /\ parsed' = parseTimeLog(text)
    /\ op' = "Parse"
    /\ UNCHANGED <<log, text, origin, arg, pre, out, tree, periods, heap, ptrs, runs>>

NextFile ==
    \/ \E e \in FileEvents : AppendEvent(e, MaxFileLog)
    \/ WriteLog
    \/ \E t \in RawTexts : ReadFile(t)
    \/ ParseFile

SpecFile == InitFile /\ [][NextFile]_vars

-----------------------------------------------------------------------------
(* Round trip of the log file *)

\* str has no blank at either end
Trimmed(str) == str = <<>> \/ (str[1] \notin WS /\ str[Len(str)] \notin WS)

NoDelimiter(str) == \A i \in 1..Len(str) : str[i] \notin {"]", "\n"}

\* C1 as stated: every log whose codes and descriptions hold neither "]" nor a
\* newline is parsed back from its serialized text without error and equal to
\* the original, field for field and in the same order.
RoundTripAny ==
    (/\ op = "Parse"
     /\ origin = "format"
     /\ \A i \in 1..Len(log) : NoDelimiter(log[i].Code) /\ NoDelimiter(log[i].Desc))
        => (parsed.err = "" /\ parsed.log = log)

\* C1 amended: a log whose codes and descriptions hold neither "]" nor a newline
\* and neither begin nor end with a space or tab is parsed back from its
\* serialized text without error and equal to the original.
RoundTripTrimmed ==
    (/\ op = "Parse"
     /\ origin = "format"
     /\ \A i \in 1..Len(log) :
            /\ NoDelimiter(log[i].Code) /\ NoDelimiter(log[i].Desc)
            /\ Trimmed(log[i].Code) /\ Trimmed(log[i].Desc))
        => (parsed.err = "" /\ parsed.log = log)

\* two events with codes of different widths (so one code is padded), an empty
\* description and an afternoon time, written and parsed back
RoundTripWitness ==
    /\ op = "Parse"
    /\ origin = "format"
    /\ Len(log) = 2
    /\ \A i \in 1..Len(log) : Trimmed(log[i].Code) /\ Trimmed(log[i].Desc)
    /\ Len(log[1].Code) < Len(log[2].Code)
    /\ log[1].Desc = <<>>
    /\ HourOf(log[2].At) >= 12
    /\ parsed.err = ""
    /\ parsed.log = log

-----------------------------------------------------------------------------
(* The unclosed code block *)

RECURSIVE IndexOf(_, _, _)
\* the first index >= i of s holding a character of chars, or 0
IndexOf(s, i, chars) ==
    IF i > Len(s) THEN 0 ELSE IF s[i] \in chars THEN i ELSE IndexOf(s, i + 1, chars)

RECURSIVE SkipBlanks(_, _)
SkipBlanks(s, i) == IF i <= Len(s) /\ s[i] \in WS THEN SkipBlanks(s, i + 1) ELSE i

\* the first line of s is a date, blanks, then "[" with a newline before any "]"
UnclosedCode(s) ==
    LET n == Len(FormatTime(0))
        j == SkipBlanks(s, n + 1)
        k == IndexOf(s, j + 1, {"]", "\n"})
    IN  /\ Len(s) > n
        /\ SubSeq(s, 1, n) = FormatTime(Date(2023, 7, 6, 9, 36))
        /\ j <= Len(s) /\ s[j] = "["
        /\ k # 0 /\ s[k] = "\n"

\* C2: an event line that opens a code block with "[" and reaches a newline
\* before any "]" fails with Malformed, tagged with that line, and no events.
UnclosedIsMalformed ==
    (op = "Parse" /\ origin = "raw" /\ UnclosedCode(text))
        => parsed = [err |-> "Malformed", line |-> 1, log |-> <<>>]

-----------------------------------------------------------------------------
(* timelog/calc.go: the period deriver *)

IsSorted(l) == \A i \in 1..(Len(l) - 1) : l[i].At <= l[i + 1].At

\* the ways of listing the indexes 1..n
Orders(n) == {f \in [1..n -> 1..n] : \A i, j \in 1..n : i # j => f[i] # f[j]}

Reorder(l, f) == [i \in 1..Len(l) |-> l[f[i]]]

\* every ascending arrangement of l
SortedOrders(l) == {Reorder(l, f) : f \in {g \in Orders(Len(l)) : IsSorted(Reorder(l, g))}}

\* a sort that may reorder equal events of a sorted log as well
SortAny(l) == SortedOrders(l)

\* the log is left in the order it has
SortNone(l) == {l}

\* sort.Slice(log, func(i, j) { return log[i].At.Before(log[j].At) }): the result
\* is ascending and sort.Slice does not promise to keep equal elements in their
\* order (it does only below 12 elements, where it is an insertion sort; the
\* model's logs are shorter than that and stand for logs of every length).  An
\* input that is ascending already is left as it is: the insertion sort never
\* swaps, and the pattern-defeating quicksort checks for it before partitioning.
Sort(l) == IF IsSorted(l) THEN {l} ELSE SortedOrders(l)

\* the events at t are kept as well
AfterInclusive(l, t) == LET Test(e) == e.At >= t IN SelectSeq(l, Test)

RECURSIVE After(_, _)
After(l, t) ==
    IF l = <<>> THEN <<>>
    ELSE IF Head(l).At > t THEN <<Head(l)>> \o After(Tail(l), t)
    ELSE After(Tail(l), t)

RECURSIVE BetweenLoop(_, _, _)
BetweenLoop(l, t1, t2) ==
    IF l = <<>> THEN <<>>
    ELSE IF Head(l).At > t1 /\ Head(l).At < t2
         THEN <<Head(l)>> \o BetweenLoop(Tail(l), t1, t2)
    ELSE BetweenLoop(Tail(l), t1, t2)

\* the bounds are not swapped
BetweenNoSwap(l, t1, t2) == BetweenLoop(l, t1, t2)

Between(l, t1, t2) == IF t1 > t2 THEN BetweenLoop(l, t2, t1) ELSE BetweenLoop(l, t1, t2)

\* the description and the code are taken from the closing event
NewPeriodClosing(last, item) ==
    [Begin |-> last.At, End |-> item.At, Desc |-> item.Desc, Code |-> item.Code]

\* the period that begins with the event last and ends with the event item
NewPeriod(last, item) ==
    [Begin |-> last.At, End |-> item.At, Desc |-> last.Desc, Code |-> last.Code]

\* the loop of Periods over the sorted log
PairUp(l) == [i \in 1..(Len(l) - 1) |-> NewPeriod(l[i], l[i + 1])]

\* p.Length()
Length(p) == p.End - p.Begin

-----------------------------------------------------------------------------
(* A log in memory and the operations on it *)

LogTimes == {Date(2024, 12, 30, 9, 0), Date(2024, 12, 30, 10, 0), Date(2024, 12, 30, 11, 0)}
LogEvents == {[At |-> t, Code |-> k[1], Desc |-> k[2]] :
                t \in LogTimes, k \in {<<<<"A">>, <<"a">>>>, <<<<"B">>, <<"b">>>>}}
QueryTimes == LogTimes \cup {Date(2024, 12, 30, 8, 0), Date(2024, 12, 30, 12, 0)}

DoSort ==
    /\ \E s \in Sort(log) : log' = s
    /\ pre' = log
    /\ op' = "Sort"
    /\ arg' = <<>>
    /\ out' = <<>>
    /\ UNCHANGED <<text, origin, parsed, tree, periods, heap, ptrs, runs>>

DoAfter(t) ==
    /\ out' = After(log, t)
    /\ pre' = log
    /\ op' = "After"
    /\ arg' = <<t>>
    /\ UNCHANGED <<log, text, origin, parsed, tree, periods, heap, ptrs, runs>>

DoBetween(t1, t2) ==
    /\ out' = Between(log, t1, t2)
    /\ pre' = log
    /\ op' = "Between"
    /\ arg' = <<t1, t2>>
    /\ UNCHANGED <<log, text, origin, parsed, tree, periods, heap, ptrs, runs>>

\* Periods sorts the receiver, then pairs the events up
DoPeriods ==
    /\ \E s \in Sort(log) : log' = s /\ out' = PairUp(s)
    /\ pre' = log
    /\ op' = "Periods"
    /\ arg' = <<>>
    /\ UNCHANGED <<text, origin, parsed, tree, periods, heap, ptrs, runs>>

NextLog ==
    \/ \E e \in LogEvents : AppendEvent(e, MaxLog)
    \/ DoSort
    \/ \E t \in QueryTimes : DoAfter(t)
    \/ \E t1, t2 \in QueryTimes : DoBetween(t1, t2)
    \/ DoPeriods

SpecLog == InitFile /\ [][NextLog]_vars

-----------------------------------------------------------------------------
(* Periods *)

SameEvents(l1, l2) == \E f \in Orders(Len(l1)) : Len(l2) = Len(l1) /\ l2 = Reorder(l1, f)

\* C4: Periods() on a log of n events returns max(n-1, 0) periods; with e the
\* events in ascending order (the receiver after the call), period i begins at
\* e[i].at, ends at e[i+1].at and has the code and desc of e[i].
PeriodsOfLog ==
    op = "Periods" =>
        /\ Len(out) = (IF Len(pre) = 0 THEN 0 ELSE Len(pre) - 1)
        /\ SameEvents(pre, log)
        /\ IsSorted(log)
        /\ \A i \in 1..Len(out) :
            /\ out[i].Begin = log[i].At
            /\ out[i].End = log[i + 1].At
            /\ out[i].Code = log[i].Code
            /\ out[i].Desc = log[i].Desc

\* three events given out of order, with different codes: two periods
PeriodsWitness ==
    /\ op = "Periods"
    /\ Len(pre) = 3
    /\ ~IsSorted(pre)
    /\ Len(out) = 2
    /\ out[1].Code # out[2].Code
    /\ out[2].Code # log[3].Code
    /\ out[1].Begin < out[1].End

-----------------------------------------------------------------------------
(* Sort *)

\* l in ascending order, events of equal time in the order they have in l
StableSorted(l) ==
    LET f == CHOOSE g \in Orders(Len(l)) :
                \A i, j \in 1..Len(l) : i < j =>
                    \/ l[g[i]].At < l[g[j]].At
                    \/ (l[g[i]].At = l[g[j]].At /\ g[i] < g[j])
    IN  Reorder(l, f)

\* C5: Sort leaves the same events, in ascending order, and events of equal
\* time in the relative order they had before the call.
SortIsStable == op = "Sort" => log = StableSorted(pre)

\* Sort leaves the same events in ascending order
SortIsPermutation == op = "Sort" => (SameEvents(pre, log) /\ IsSorted(log))

-----------------------------------------------------------------------------
(* After and Between *)

\* C7: After(t) returns exactly the events with at > t, once each, in the order
\* of the receiver.
AfterIsStrict ==
    op = "After" =>
        LET Test(e) == e.At > arg[1] IN out = SelectSeq(pre, Test) /\ log = pre

\* an event at t is left out and a later one returned
AfterWitness ==
    /\ op = "After"
    /\ \E i \in 1..Len(pre) : pre[i].At = arg[1]
    /\ Len(out) >= 1
    /\ Len(out) < Len(pre)

\* C8: Between(t1, t2) = Between(t2, t1), and the result is exactly the events
\* with min(t1, t2) < at < max(t1, t2), in the order of the receiver.
BetweenIsSymmetric ==
    op = "Between" =>
        LET lo == IF arg[1] < arg[2] THEN arg[1] ELSE arg[2]
            hi == IF arg[1] < arg[2] THEN arg[2] ELSE arg[1]
            Test(e) == lo < e.At /\ e.At < hi
        IN  /\ out = SelectSeq(pre, Test)
            /\ out = Between(pre, arg[2], arg[1])
            /\ (arg[1] = arg[2] => out = <<>>)

\* the bounds given later first, an event on each bound left out and one
\* between them returned
BetweenWitness ==
    /\ op = "Between"
    /\ arg[1] > arg[2]
    /\ \E i \in 1..Len(pre) : pre[i].At = arg[1]
    /\ \E i \in 1..Len(pre) : pre[i].At = arg[2]
    /\ Len(out) = 1

-----------------------------------------------------------------------------
(* The report's periods filtered by timecode and its children *)

TreeCodes == {<<"A">>, <<"A", ":", "B">>, <<"A", ":", "C">>, <<"B">>}
PeriodCodes == TreeCodes \cup {<<>>}
FilterCodes == TreeCodes \cup {<<"C">>, <<"A", ":", "D">>, <<>>}

\* the timecode file is read and the tree built from its codes
Generate(codes) ==
    /\ op = "init"
    /\ arg = <<>>
    /\ tree = NewTree
    /\ periods = <<>>
    /\ tree' = GenerateTimecodeTree(codes)
    /\ arg' = <<codes>>
    /\ UNCHANGED <<log, text, origin, parsed, op, pre, out, periods, heap, ptrs, runs>>

\* one more period is selected for the report
AddPeriod(b, len, code, max) ==
    /\ op = "init"
    /\ Len(periods) < max
    /\ periods' = Append(periods,
            [Begin |-> b, End |-> b + len, Desc |-> <<>>, Code |-> code])
    /\ UNCHANGED <<log, text, origin, parsed, op, arg, pre, out, tree, heap, ptrs, runs>>

FilterIn(code) ==
    /\ \E r \in FilterInPeriodsChildren(periods, code, tree) : out' = r
    /\ pre' = periods
    /\ arg' = <<code>>
    /\ op' = "FilterIn"
    /\ UNCHANGED <<log, text, origin, parsed, tree, periods, heap, ptrs, runs>>

FilterOut(code) ==
    /\ \E r \in FilterOutPeriodsChildren(periods, code, tree) : out' = r
    /\ pre' = periods
    /\ arg' = <<code>>
    /\ op' = "FilterOut"
    /\ UNCHANGED <<log, text, origin, parsed, tree, periods, heap, ptrs, runs>>

NextTree ==
    \/ \E codes \in SeqsUpTo(TreeCodes, MaxCodes) : Generate(codes)
    \/ \E code \in PeriodCodes :
            AddPeriod(Date(2024, 12, 30, 9, 0) + 60 * Len(periods), 60, code, MaxPeriods)
    \/ \E code \in FilterCodes : FilterIn(code)
    \/ \E code \in FilterCodes : FilterOut(code)

SpecTree == InitFile /\ [][NextTree]_vars

\* the same with a timecode file that holds the code "-"
RootCodes == {<<"-">>, <<"A">>, <<"-", ":", "A">>}
RootFilterCodes == RootCodes \cup {<<"B">>}

NextRoot ==
    \/ \E codes \in SeqsUpTo(RootCodes, MaxCodes) : Generate(codes)
    \/ \E code \in RootCodes :
            AddPeriod(Date(2024, 12, 30, 9, 0) + 60 * Len(periods), 60, code, MaxPeriods)
    \/ \E code \in RootFilterCodes : FilterIn(code)
    \/ \E code \in RootFilterCodes : FilterOut(code)

SpecRoot == InitFile /\ [][NextRoot]_vars

-----------------------------------------------------------------------------
(* Subtree filter complementarity *)

Count(s, x) == Cardinality({i \in 1..Len(s) : s[i] = x})

\* a and b share no period and together hold each period as often as p does
Partition(p, a, b) ==
    /\ Range(a) \cap Range(b) = {}
    /\ \A x \in Range(p) \cup Range(a) \cup Range(b) : Count(a, x) + Count(b, x) = Count(p, x)

\* the Self of the node of code and of all its descendants
Subtree(t, code) ==
    {t[q] : q \in {r \in DOMAIN t : Len(r) >= Len(Split(code))
                                    /\ Prefix(r, Len(Split(code))) = Split(code)}}

\* what the two filters return for the periods p and the code: they part p,
\* the first holding the periods with a code in the subtree of code
Complementary(p, code, ins, outs) ==
    /\ Partition(p, ins, outs)
    /\ \A x \in Range(p) : x \in Range(ins) <=> x.Code \in Subtree(tree, code)

\* C3 as stated: for every tree, period list and code c the two subtree
\* filters part the list into the periods of c's subtree and the others.
FiltersPartitionAny ==
    /\ op = "FilterIn" =>
        \A o \in FilterOutPeriodsChildren(pre, arg[1], tree) :
            Complementary(pre, arg[1], out, o)
    /\ op = "FilterOut" =>
        \A i \in FilterInPeriodsChildren(pre, arg[1], tree) :
            Complementary(pre, arg[1], i, out)

\* C3 amended: for every tree, period list and code c that has a node in the
\* tree, the two subtree filters part the list into the periods of c's subtree
\* and the others.
FiltersPartitionFound ==
    /\ (op = "FilterIn" /\ Found(tree, arg[1])) =>
        \A o \in FilterOutPeriodsChildren(pre, arg[1], tree) :
            Complementary(pre, arg[1], out, o)
    /\ (op = "FilterOut" /\ Found(tree, arg[1])) =>
        \A i \in FilterInPeriodsChildren(pre, arg[1], tree) :
            Complementary(pre, arg[1], i, out)

\* the tree of A, A:B and A:C, the periods of A:B and of B, filtered by A
FiltersPartitionWitness ==
    /\ op = "FilterIn"
    /\ tree = GenerateTimecodeTree(<<<<"A">>, <<"A", ":", "B">>, <<"A", ":", "C">>>>)
    /\ arg = <<<<"A">>>>
    /\ Len(pre) = 2
    /\ Len(out) = 1
    /\ out[1].Code = <<"A", ":", "B">>
    /\ FilterOutPeriodsChildren(pre, arg[1], tree) = {<<pre[2]>>}

-----------------------------------------------------------------------------
(* main.go: the week data of the report *)

IsSortedByBegin(ps) == \A i \in 1..(Len(ps) - 1) : ps[i].Begin <= ps[i + 1].Begin

\* the periods are left in the order in which they were selected
SortPeriodsNone(ps) == {ps}

\* the earliest begin of the periods of ps, and ps without its i-th period
FirstBegin(ps) ==
    CHOOSE b \in {ps[i].Begin : i \in 1..Len(ps)} : \A i \in 1..Len(ps) : b <= ps[i].Begin
Without(ps, i) == SubSeq(ps, 1, i - 1) \o SubSeq(ps, i + 1, Len(ps))

\* the orders of ps that are sorted by begin: one of the periods with the
\* earliest begin first, then the others in a sorted order
RECURSIVE SortedByBegin(_)
SortedByBegin(ps) ==
    IF ps = <<>> THEN {<<>>}
    ELSE UNION {{<<ps[i]>> \o r : r \in SortedByBegin(Without(ps, i))} :
                    i \in {j \in 1..Len(ps) : ps[j].Begin = FirstBegin(ps)}}

\* sort.Slice(periods, func(i, j) { return periods[i].Begin.Before(periods[j].Begin) })
SortPeriods(ps) == IF IsSortedByBegin(ps) THEN {ps} ELSE SortedByBegin(ps)

\* the zero value of [8]time.Duration
NoDurations == [i \in 0..7 |-> 0]

\* &ReportWeek{Year: cy, Number: cwn, Totals: map[string][8]time.Duration{}}
NewWeek(key) ==
    [Year |-> key[1], Number |-> key[2], Periods |-> <<>>,
     Totals |-> [c \in {} |-> NoDurations], Daily |-> NoDurations]

\* the calendar numbering of the weekday, Sunday = 0, is used as it is
SlotCalendar(p) == Weekday(p.Begin)

\* d := p.Begin.Weekday() - 1; if d < 0 { d = 6 }
Slot(p) == IF Weekday(p.Begin) - 1 < 0 THEN 6 ELSE Weekday(p.Begin) - 1

\* the week total is not kept
AccumulateDay(v, d, len) == [v EXCEPT ![d] = @ + len]

\* v[d] = v[d] + p.Length(); v[7] = v[7] + p.Length()
Accumulate(v, d, len) == [v EXCEPT ![d] = @ + len, ![7] = @ + len]

\* cw.Totals[p.Code]: the zero value for a code the map does not hold
TotalsOf(w, code) == IF code \in DOMAIN w.Totals THEN w.Totals[code] ELSE NoDurations

\* the period is added to the totals but not to the period list of the week
AddToWeekTotals(cw, p) ==
    [cw EXCEPT
        !.Totals = (p.Code :> Accumulate(TotalsOf(cw, p.Code), Slot(p), Length(p))) @@ @,
        !.Daily = Accumulate(@, Slot(p), Length(p))]

\* the body of the loop after the week is chosen: p is added to the week cw
AddToWeek(cw, p) ==
    [cw EXCEPT
        !.Periods = Append(@, p),
        !.Totals = (p.Code :> Accumulate(TotalsOf(cw, p.Code), Slot(p), Length(p))) @@ @,
        !.Daily = Accumulate(@, Slot(p), Length(p))]

\* does the loop open a new week for p?  weeks is not empty
OpensWeek(weeks, p) ==
    LET cw == weeks[Len(weeks)]
    IN  ISOWeek(p.Begin)[2] # cw.Number \/ ISOWeek(p.Begin)[1] # cw.Year

\* the loop over the periods from the i-th on
RECURSIVE WeekLoop(_, _, _)
WeekLoop(weeks, ps, i) ==
    IF i > Len(ps) THEN weeks
    ELSE LET p == ps[i]
             ws == IF weeks = <<>> \/ OpensWeek(weeks, p)
                   THEN Append(weeks, NewWeek(ISOWeek(p.Begin)))
                   ELSE weeks
         IN  WeekLoop([ws EXCEPT ![Len(ws)] = AddToWeek(@, p)], ps, i + 1)

WeekData(ps) == WeekLoop(<<>>, ps, 1)

\* the periods the model selects for the report, in any order: begins on both
\* sides of the turn of the ISO year 2024/2025, a short code A and a long code B
WeekBegins == {Date(2024, 12, 23, 9, 0), Date(2024, 12, 29, 23, 30), Date(2024, 12, 30, 9, 0),
               Date(2025, 1, 1, 9, 0), Date(2025, 1, 6, 9, 0)}
WeekKinds == {<<30, <<"A">>>>, <<90, <<"B">>>>}

\* the report: the selected periods are sorted and the week data generated
Report ==
    /\ op = "init"
    /\ periods # <<>>
    /\ \E s \in SortPeriods(periods) :
            out' = [Periods |-> s, Weeks |-> WeekData(s)]
    /\ pre' = periods
    /\ op' = "Report"
    /\ UNCHANGED <<log, text, origin, parsed, arg, tree, periods, heap, ptrs, runs>>

\* no period is selected: the report ends with "No periods in given time range."
ReportNothing ==
    /\ op = "init"
    /\ periods = <<>>
    /\ op' = "NoPeriods"
    /\ UNCHANGED <<log, text, origin, parsed, arg, pre, out, tree, periods, heap, ptrs, runs>>

NextWeek ==
    \/ \E b \in WeekBegins, k \in WeekKinds : AddPeriod(b, k[1], k[2], MaxWeekPeriods)
    \/ Report
    \/ ReportNothing

SpecWeek == InitFile /\ [][NextWeek]_vars

-----------------------------------------------------------------------------
(* Week bucket totals *)

RECURSIVE SumSeq(_)
SumSeq(s) == IF s = <<>> THEN 0 ELSE Head(s) + SumSeq(Tail(s))

SumDays(v) == v[0] + v[1] + v[2] + v[3] + v[4] + v[5] + v[6]

\* C9: in every bucket daily[7] is the sum of daily[0..6], for every code
\* totals[code][7] is the sum of totals[code][0..6], and the daily[7] of all
\* buckets add up to the durations of all the periods.
WeekTotals ==
    op = "Report" =>
        LET ws == out.Weeks
        IN  /\ \A i \in 1..Len(ws) :
                /\ ws[i].Daily[7] = SumDays(ws[i].Daily)
                /\ \A c \in DOMAIN ws[i].Totals :
                        ws[i].Totals[c][7] = SumDays(ws[i].Totals[c])
            /\ SumSeq([i \in 1..Len(ws) |-> ws[i].Daily[7]])
                    = SumSeq([i \in 1..Len(pre) |-> Length(pre[i])])

\* two buckets, one of them with two codes on two days
WeekTotalsWitness ==
    /\ op = "Report"
    /\ Len(out.Weeks) = 2
    /\ \E i \in 1..2 :
        /\ Cardinality(DOMAIN out.Weeks[i].Totals) = 2
        /\ Cardinality({d \in 0..6 : out.Weeks[i].Daily[d] > 0}) = 2
        /\ out.Weeks[i].Daily[7] = 120

-----------------------------------------------------------------------------
(* Week bucketing *)

Key(w) == <<w.Year, w.Number>>
KeyLess(a, b) == a[1] < b[1] \/ (a[1] = b[1] /\ a[2] < b[2])

\* the ISO weeks of the begins of ps, each run of equal weeks taken once
RECURSIVE Runs(_)
Runs(ps) ==
    IF ps = <<>> THEN <<>>
    ELSE IF Len(ps) >= 2 /\ ISOWeek(ps[Len(ps) - 1].Begin) = ISOWeek(ps[Len(ps)].Begin)
         THEN Runs(Prefix(ps, Len(ps) - 1))
    ELSE Append(Runs(Prefix(ps, Len(ps) - 1)), ISOWeek(ps[Len(ps)].Begin))

BucketKeys(ws) == [i \in 1..Len(ws) |-> Key(ws[i])]

\* C10: a bucket is opened exactly when the ISO (year, week) of a period's
\* begin differs from the key of the open bucket, the buckets are in the order
\* opened, and for periods sorted by begin the keys are strictly increasing (no
\* key twice).
WeekBucketing ==
    op = "Report" =>
        /\ BucketKeys(out.Weeks) = Runs(out.Periods)
        /\ BucketKeys(WeekData(pre)) = Runs(pre)
        /\ \A i, j \in 1..Len(out.Weeks) :
                i < j => KeyLess(Key(out.Weeks[i]), Key(out.Weeks[j]))

\* periods selected out of order that revisit a week: sorted, the report has
\* the two weeks 2024/52 and 2025/1 once each; aggregated as selected, the week
\* 2024/52 would have been opened twice
WeekBucketingWitness ==
    /\ op = "Report"
    /\ BucketKeys(out.Weeks) = <<<<2024, 52>>, <<2025, 1>>>>
    /\ BucketKeys(WeekData(pre)) = <<<<2024, 52>>, <<2025, 1>>, <<2024, 52>>>>

-----------------------------------------------------------------------------
(* The shape of the date *)

DateSeparators == {<<"/">>, <<"-">>, <<".">>}

\* a group has not its count of digits, a date separator is none of "/", "-"
\* and ".", the single space before the time or the ":" in the time is missing
BadShape(v) ==
    \/ Len(v.y) # 4 \/ Len(v.m) # 2 \/ Len(v.d) # 2 \/ Len(v.h) # 2 \/ Len(v.mi) # 2
    \/ v.s1 \notin DateSeparators \/ v.s2 \notin DateSeparators
    \/ v.sp # <<" ">> \/ v.c # <<":">>

MisshapenDate(s) == \E v \in DateVariants : BadShape(v) /\ s \in DateTexts(v)

\* C11: a date with a wrong digit count in a group, a separator other than
\* "/", "-", "." between the date groups, no single space before the time or
\* no ":" in the time makes the parse fail with BadDate.
BadShapeIsBadDate ==
    (op = "Parse" /\ origin = "raw" /\ MisshapenDate(text)) => parsed.err = "BadDate"

\* C12: every error of the parser is BadDate, UnexpectedEnd or Malformed and
\* carries the 1-based line at which the failure was detected.
ThreeErrorKinds ==
    (op = "Parse" /\ parsed.err # "") =>
        (parsed.err \in {"BadDate", "UnexpectedEnd", "Malformed"} /\ parsed.line >= 1)

-----------------------------------------------------------------------------
(* The end of the input inside an event line *)

\* the number of newlines of s
Newlines(s) == Cardinality({i \in 1..Len(s) : s[i] = "\n"})

\* the index of the last newline of s, or 0
LastNewline(s) == IF Newlines(s) = 0 THEN 0 ELSE Max({i \in 1..Len(s) : s[i] = "\n"})

\* the lines of s that a newline ends
LinesBefore(s) == Prefix(s, LastNewline(s))

\* what follows the last newline of s, without the blanks it begins with
LastLine(s) == SubSeq(s, SkipBlanks(s, LastNewline(s) + 1), Len(s))

StartsWith(s, p) == Len(s) >= Len(p) /\ Prefix(s, Len(p)) = p

\* blank lines and well-formed event lines
GoodLines ==
    {<<"\n">>, Expand(<<"D", "\n">>), Expand(<<"D", "x", "\n">>), DateLine(GoodDate)}

GoodLinesOnly(s) == s \in {Concat(ls) : ls \in SeqsUpTo(GoodLines, 3)}

\* the input ends in an event line, after its date
EndsAfterDate(s) == GoodLinesOnly(LinesBefore(s)) /\ StartsWith(LastLine(s), DateString(GoodDate))

\* the input ends in an event line, inside its date
EndsInsideDate(s) == GoodLinesOnly(LinesBefore(s)) /\ LastLine(s) \in TruncatedDates

\* C13 as stated: the input ending while an event line still needs a token
\* (inside the datetime, after it, inside a code block, inside the
\* description) fails with UnexpectedEnd on the line where the parser stalled
\* and returns no events.
EndIsUnexpectedEnd ==
    (op = "Parse" /\ origin = "raw" /\ (EndsAfterDate(text) \/ EndsInsideDate(text)))
        => parsed = Failed("UnexpectedEnd", Newlines(text) + 1)

\* C13 amended: the input ending after the datetime of an event line (nothing
\* following, inside a code block, inside the description) fails with
\* UnexpectedEnd on the line where the parser stalled; the input ending inside
\* the datetime fails with BadDate on that line; no events are returned.
EndOfInput ==
    /\ (op = "Parse" /\ origin = "raw" /\ EndsAfterDate(text))
            => parsed = Failed("UnexpectedEnd", Newlines(text) + 1)
    /\ (op = "Parse" /\ origin = "raw" /\ EndsInsideDate(text))
            => parsed = Failed("BadDate", Newlines(text) + 1)

\* a well-formed event line, then an event line that ends inside its
\* description, without the newline: UnexpectedEnd on line 2 and no event
EndOfInputWitness ==
    /\ op = "Parse"
    /\ origin = "raw"
    /\ text = DateLine(GoodDate) \o DateString(GoodDate) \o <<" ", "[", "x", "]", " ", "d">>
    /\ EndsAfterDate(text)
    /\ parsed = Failed("UnexpectedEnd", 2)

-----------------------------------------------------------------------------
(* The subtree filters *)

\* C14: FilterInPeriodsChildren(P, c, tree), c in the tree, returns the periods
\* of P whose code is the Self of c's node or of one of its descendants, each
\* as often as P holds it, and no period of another code.
SubtreeSelected ==
    (op = "FilterIn" /\ Found(tree, arg[1])) =>
        \A x \in Range(pre) \cup Range(out) :
            Count(out, x) = (IF x.Code \in Subtree(tree, arg[1]) THEN Count(pre, x) ELSE 0)

\* the tree of A, A:B and A:C and the periods of A and of A:C filtered by A:
\* both are returned, the one of the descendant first
SubtreeSelectedWitness ==
    /\ op = "FilterIn"
    /\ DOMAIN tree = {<<>>, <<<<"A">>>>, <<<<"A">>, <<"B">>>>, <<<<"A">>, <<"C">>>>}
    /\ arg = <<<<"A">>>>
    /\ Len(pre) = 2
    /\ pre[1].Code = <<"A">>
    /\ pre[2].Code = <<"A", ":", "C">>
    /\ out = <<pre[2], pre[1]>>

\* a segment of code has no node in the tree t
Unknown(t, code) == \E i \in 1..Len(Split(code)) : Prefix(Split(code), i) \notin DOMAIN t

\* C15: for a code of which a segment is absent from the tree both subtree
\* filters return the empty list, whatever the periods.
UnknownIsEmpty ==
    (op \in {"FilterIn", "FilterOut"} /\ Unknown(tree, arg[1])) => out = <<>>

\* two periods, one of them of the code A, filtered out by A:D, whose first
\* segment is in the tree: nothing is returned
UnknownIsEmptyWitness ==
    /\ op = "FilterOut"
    /\ arg = <<<<"A", ":", "D">>>>
    /\ <<<<"A">>>> \in DOMAIN tree
    /\ Len(pre) = 2
    /\ pre[1].Code = <<"A">>
    /\ out = <<>>

-----------------------------------------------------------------------------
(* The timecode tree *)

\* the segments of path joined by ":"
RECURSIVE Join(_)
Join(path) ==
    IF Len(path) = 1 THEN path[1]
    ELSE Join(Prefix(path, Len(path) - 1)) \o <<":">> \o path[Len(path)]

\* the paths of t below the root
Nodes(t) == DOMAIN t \ {<<>>}

\* path a is a beginning of path b and shorter
ProperPrefix(a, b) == Len(a) < Len(b) /\ Prefix(b, Len(a)) = a

\* C17: after GenerateTimecodeTree(codes) every node reached from the root by
\* the segments s1..sk has the Self s1:...:sk, every code of the list has a
\* node, a code that is a prefix of another is one node, match target and
\* internal node at once, and inserting a code twice or the codes in another
\* order yields the same tree.
TreeInvariant ==
    /\ \A q \in Nodes(tree) : tree[q] = Join(q) /\ Prefix(q, Len(q) - 1) \in DOMAIN tree
    /\ (op = "init" /\ arg # <<>>) =>
        LET codes == arg[1]
        IN  /\ \A i \in 1..Len(codes) :
                    Found(tree, codes[i]) /\ tree[Split(codes[i])] = codes[i]
            /\ Nodes(tree) = UNION {{Prefix(Split(codes[i]), k) : k \in 1..Len(Split(codes[i]))} :
                                        i \in 1..Len(codes)}
            /\ \A i, j \in 1..Len(codes) :
                    ProperPrefix(Split(codes[i]), Split(codes[j])) =>
                        (Kids(tree, Split(codes[i])) # {} /\ tree[Split(codes[i])] = codes[i])
            /\ \A f \in Orders(Len(codes)) : GenerateTimecodeTree(Reorder(codes, f)) = tree
            /\ \A i \in 1..Len(codes) : GenerateTimecodeTree(Append(codes, codes[i])) = tree

\* the codes A:B, A and A:B again: the node of A, made on the way to A:B, is
\* the node of the code A and the parent of the node of A:B
TreeWitness ==
    /\ op = "init"
    /\ arg = << << <<"A", ":", "B">>, <<"A">>, <<"A", ":", "B">> >> >>
    /\ Nodes(tree) = {<<<<"A">>>>, <<<<"A">>, <<"B">>>>}
    /\ tree[<<<<"A">>>>] = <<"A">>
    /\ tree[<<<<"A">>, <<"B">>>>] = <<"A", ":", "B">>

-----------------------------------------------------------------------------
(* The root of the timecode tree *)

RootSelf == tree[<<>>]

\* no period is selected or removed for having the root's Self as its code:
\* one that is has the Self of a node in the subtree of the filter code
RootUnmatched ==
    /\ op = "FilterIn" =>
            \A i \in 1..Len(out) :
                out[i].Code = RootSelf => out[i].Code \in Subtree(tree, arg[1])
    /\ (op = "FilterOut" /\ Found(tree, arg[1])) =>
            \A x \in Range(pre) :
                (x.Code = RootSelf /\ x \notin Range(out)) => x.Code \in Subtree(tree, arg[1])

\* C19 as stated: for every code list, one with the code "-" included, and
\* every filter code no period is selected or removed because its code equals
\* the root's Self, and the root's Self differs from the Self of every node of
\* a code.
RootNeverMatches ==
    /\ RootUnmatched
    /\ \A q \in Nodes(tree) : tree[q] # RootSelf

\* C19 amended: no period is selected or removed because its code equals the
\* root's Self (the filters never visit the root), and the root's Self differs
\* from the Self of every other node unless a code of the list is "-" or
\* begins with the segment "-": then the node of "-" has the root's Self.
RootOnlyAsCode ==
    /\ RootUnmatched
    /\ \A q \in Nodes(tree) : tree[q] = RootSelf => q = <<<<"-">>>>
    /\ (op = "init" /\ arg # <<>>) =>
            ((\E q \in Nodes(tree) : tree[q] = RootSelf)
                <=> (\E i \in 1..Len(arg[1]) : Split(arg[1][i])[1] = <<"-">>))

\* the tree has no code "-"; a period of the code "-" and one of the code A
\* are filtered out by A: the period of "-" stays
RootWitness ==
    /\ op = "FilterOut"
    /\ \A q \in Nodes(tree) : tree[q] # RootSelf
    /\ arg = <<<<"A">>>>
    /\ Found(tree, arg[1])
    /\ Len(pre) = 2
    /\ pre[1].Code = RootSelf
    /\ pre[2].Code = <<"A">>
    /\ out = <<pre[1]>>

-----------------------------------------------------------------------------
(* Adjoining periods *)

\* no two events of l have the same time
NoDuplicates(l) == \A i, j \in 1..Len(l) : i # j => l[i].At # l[j].At

\* C18: the periods returned by Periods() adjoin and are chronological: each
\* ends where the next begins, begin <= end for every period, and begin < end
\* for every period when no two events of the log have the same time.
PeriodsAdjoin ==
    op = "Periods" =>
        /\ \A i \in 1..(Len(out) - 1) : out[i].End = out[i + 1].Begin
        /\ \A i \in 1..Len(out) : out[i].Begin <= out[i].End
        /\ NoDuplicates(pre) => \A i \in 1..Len(out) : out[i].Begin < out[i].End

\* three events of different times, the latest first: two periods, the first
\* ending where the second begins
PeriodsAdjoinWitness ==
    /\ op = "Periods"
    /\ Len(pre) = 3
    /\ NoDuplicates(pre)
    /\ pre[1].At > pre[2].At
    /\ pre[1].At > pre[3].At
    /\ Len(out) = 2
    /\ out[1].End = out[2].Begin
    /\ out[1].Begin < out[1].End
    /\ out[2].End = pre[1].At

-----------------------------------------------------------------------------
(* Ownership.  A TimeLog is a []*Event: here the log is ptrs, a sequence of  *)
(* addresses, and heap holds the Event at each address (an address is an     *)
(* index of heap).  A Period holds copies of the times and strings.          *)

\* the events that the pointers ps refer to
Deref(h, ps) == [i \in 1..Len(ps) |-> h[ps[i]]]

\* for _, item := range log { if item.At.After(t) { out = append(out, item) } }
RECURSIVE afterItems(_, _, _)
afterItems(h, ps, t) ==
    IF ps = <<>> THEN <<>>
    ELSE IF h[Head(ps)].At > t THEN <<Head(ps)>> \o afterItems(h, Tail(ps), t)
    ELSE afterItems(h, Tail(ps), t)

RECURSIVE betweenItems(_, _, _, _)
betweenItems(h, ps, t1, t2) ==
    IF ps = <<>> THEN <<>>
    ELSE IF h[Head(ps)].At > t1 /\ h[Head(ps)].At < t2
         THEN <<Head(ps)>> \o betweenItems(h, Tail(ps), t1, t2)
    ELSE betweenItems(h, Tail(ps), t1, t2)

\* the result holds new events, copies of the events selected
AfterCopied(h, ps, t) ==
    LET sel == afterItems(h, ps, t)
    IN  [heap |-> h \o Deref(h, sel), out |-> [i \in 1..Len(sel) |-> Len(h) + i]]

\* log.After(t) on the heap h: the heap after the call and the slice returned
AfterShared(h, ps, t) == [heap |-> h, out |-> afterItems(h, ps, t)]

\* log.Between(t1, t2) on the heap h
BetweenShared(h, ps, t1, t2) ==
    [heap |-> h,
     out |-> IF t1 > t2 THEN betweenItems(h, ps, t2, t1) ELSE betweenItems(h, ps, t1, t2)]

\* log.Sort() on a slice of pointers: the pointers are reordered
SortPtrs(h, ps) ==
    IF IsSorted(Deref(h, ps)) THEN {ps}
    ELSE {Reorder(ps, f) : f \in {g \in Orders(Len(ps)) : IsSorted(Deref(h, Reorder(ps, g)))}}

\* the description a caller writes into an event or a period
NewDesc == <<"z">>

\* current := &Event{...}; log = append(log, current)
NewEvent(e) ==
    /\ op = "init"
    /\ Len(ptrs) < MaxLog
    /\ heap' = Append(heap, e)
    /\ ptrs' = Append(ptrs, Len(heap) + 1)
    /\ UNCHANGED <<log, text, origin, parsed, op, arg, pre, out, tree, periods, runs>>

OwnAfter(t) ==
    /\ op = "init"
    /\ LET r == AfterShared(heap, ptrs, t) IN heap' = r.heap /\ out' = r.out
    /\ op' = "After"
    /\ arg' = <<t>>
    /\ pre' = Deref(heap, ptrs)
    /\ UNCHANGED <<log, text, origin, parsed, tree, periods, ptrs, runs>>

OwnBetween(t1, t2) ==
    /\ op = "init"
    /\ LET r == BetweenShared(heap, ptrs, t1, t2) IN heap' = r.heap /\ out' = r.out
    /\ op' = "Between"
    /\ arg' = <<t1, t2>>
    /\ pre' = Deref(heap, ptrs)
    /\ UNCHANGED <<log, text, origin, parsed, tree, periods, ptrs, runs>>

\* log.Periods(): the receiver is sorted, the periods are made of copies
OwnPeriods ==
    /\ op = "init"
    /\ \E s \in SortPtrs(heap, ptrs) : ptrs' = s /\ out' = PairUp(Deref(heap, s))
    /\ op' = "Periods"
    /\ arg' = <<>>
    /\ pre' = Deref(heap, ptrs)
    /\ UNCHANGED <<log, text, origin, parsed, tree, periods, heap, runs>>

\* a caller writes a field of the i-th event returned: out[i].Desc = NewDesc
EditReturned(i) ==
    /\ op \in {"After", "Between"}
    /\ i \in 1..Len(out)
    /\ heap' = [heap EXCEPT ![out[i]].Desc = NewDesc]
    /\ op' = "EditReturned"
    /\ arg' = <<out[i]>>
    /\ pre' = Deref(heap, ptrs)
    /\ UNCHANGED <<log, text, origin, parsed, out, tree, periods, ptrs, runs>>

\* a caller writes a field of the i-th period returned
EditPeriod(i) ==
    /\ op = "Periods"
    /\ i \in 1..Len(out)
    /\ out' = [out EXCEPT ![i].Desc = NewDesc]
    /\ op' = "EditPeriod"
    /\ arg' = <<i>>
    /\ pre' = Deref(heap, ptrs)
    /\ UNCHANGED <<log, text, origin, parsed, tree, periods, heap, ptrs, runs>>

\* a caller writes a field of the i-th event of the log after Periods()
EditEvent(i) ==
    /\ op = "Periods"
    /\ i \in 1..Len(ptrs)
    /\ heap' = [heap EXCEPT ![ptrs[i]].Desc = NewDesc]
    /\ op' = "EditEvent"
    /\ arg' = <<ptrs[i]>>
    /\ pre' = out
    /\ UNCHANGED <<log, text, origin, parsed, out, tree, periods, ptrs, runs>>

NextOwn ==
    \/ \E e \in LogEvents : NewEvent(e)
    \/ \E t \in QueryTimes : OwnAfter(t)
    \/ \E t1, t2 \in QueryTimes : OwnBetween(t1, t2)
    \/ OwnPeriods
    \/ \E i \in 1..MaxLog : EditReturned(i)
    \/ \E i \in 1..MaxLog : EditPeriod(i)
    \/ \E i \in 1..MaxLog : EditEvent(i)

SpecOwn == InitFile /\ [][NextOwn]_vars

\* the log pre with the description of the events at the positions I changed
WithDesc(l, I) == [i \in 1..Len(l) |-> IF i \in I THEN [l[i] EXCEPT !.Desc = NewDesc] ELSE l[i]]

\* C16: the events returned by After and Between are the objects of the source
\* log, so that a field changed in a returned event is changed in the log;
\* the periods of Periods() are copies: a change of a period changes no event
\* and a later change of an event changes no period.
Ownership ==
    /\ op \in {"After", "Between"} =>
            (Range(out) \subseteq Range(ptrs) /\ Deref(heap, ptrs) = pre)
    /\ op = "EditReturned" =>
            /\ arg[1] \in Range(ptrs)
            /\ Deref(heap, ptrs) = WithDesc(pre, {i \in 1..Len(ptrs) : ptrs[i] = arg[1]})
    /\ op = "EditPeriod" => Deref(heap, ptrs) = pre
    /\ op = "EditEvent" => out = pre

\* of two events After returns the later one; the caller changes its
\* description, and the second event of the log has the new description
OwnershipWitness ==
    /\ op = "EditReturned"
    /\ Len(ptrs) = 2
    /\ Len(out) = 1
    /\ pre[2].Desc # NewDesc
    /\ Deref(heap, ptrs)[2].Desc = NewDesc
    /\ Deref(heap, ptrs)[1] = pre[1]

-----------------------------------------------------------------------------
(* main.go: the report's code filters.  all is the list of the periods of   *)
(* the time range, fcode the list of the filter codes of the request.      *)

\* the hardcoded filter codes and the suffix of a wildcard code
EmptyCode == <<"e", "m", "p", "t", "y">>
AllCode == <<"a", "l", "l">>
Wildcard == <<":", ".", ".", ".">>

HasSuffix(str, suffix) ==
    Len(str) >= Len(suffix) /\ SubSeq(str, Len(str) - Len(suffix) + 1, Len(str)) = suffix

\* code, hasWildcard := strings.CutSuffix(code, ":...")
CutSuffix(str, suffix) ==
    IF HasSuffix(str, suffix) THEN Prefix(str, Len(str) - Len(suffix)) ELSE str

\* the filter "all" selects every period left, the ones without code too
filterStepAllLeft(code, sel, all, t) ==
    IF code = EmptyCode
    THEN {[periods |-> sel \o FilterInPeriods(all, <<>>), all |-> FilterOutPeriods(all, <<>>)]}
    ELSE IF code = AllCode
    THEN {[periods |-> sel \o all, all |-> <<>>]}
    ELSE IF HasSuffix(code, Wildcard)
    THEN {[periods |-> sel \o r, all |-> all] :
            r \in FilterInPeriodsChildren(all, CutSuffix(code, Wildcard), t)}
    ELSE {[periods |-> sel \o FilterInPeriods(all, code), all |-> FilterOutPeriods(all, code)]}

\* the body of the loop over fcode: the lists periods and all after it, one
\* pair for each order in which the kids of the tree may be visited
filterStep(code, sel, all, t) ==
    IF code = EmptyCode
    THEN {[periods |-> sel \o FilterInPeriods(all, <<>>), all |-> FilterOutPeriods(all, <<>>)]}
    ELSE IF code = AllCode
    THEN {[periods |-> sel \o FilterOutPeriods(all, <<>>), all |-> FilterInPeriods(all, <<>>)]}
    ELSE IF HasSuffix(code, Wildcard)
    THEN {[periods |-> sel \o r, all |-> all] :
            r \in FilterInPeriodsChildren(all, CutSuffix(code, Wildcard), t)}
    ELSE {[periods |-> sel \o FilterInPeriods(all, code), all |-> FilterOutPeriods(all, code)]}

\* for _, code := range fcode {...}: the lists of periods it may end with
RECURSIVE filterLoop(_, _, _, _)
filterLoop(fcode, sel, all, t) ==
    IF fcode = <<>> THEN {sel}
    ELSE UNION {filterLoop(Tail(fcode), st.periods, st.all, t) :
                    st \in filterStep(Head(fcode), sel, all, t)}

\* if len(fcode) == 0 { fcode = append(fcode, "all") }
WithDefault(fcode) == IF fcode = <<>> THEN <<AllCode>> ELSE fcode

\* running[p.Code] += p.Length() for every period of ps
Running(ps) ==
    [c \in {ps[i].Code : i \in 1..Len(ps)} |->
        SumSeq([i \in 1..Len(ps) |-> IF ps[i].Code = c THEN Length(ps[i]) ELSE 0])]

\* what the report hands to its template for the sorted periods s; nothing
\* is computed when there is no period
ReportData(s) ==
    IF s = <<>> THEN [Periods |-> <<>>, Totals |-> <<>>, Weeks |-> <<>>]
    ELSE [Periods |-> s, Totals |-> Running(s), Weeks |-> WeekData(s)]

\* the report of the periods all for the filter codes fcode
ReportOf(all, fcode, t) ==
    UNION {{ReportData(s) : s \in SortPeriods(sel)} :
            sel \in filterLoop(WithDefault(fcode), <<>>, all, t)}

\* the longest list of filter codes of a report
MaxFilters == 2

ReportTrees == {<<<<"A">>>>, <<<<"A">>, <<"A", ":", "B">>>>}
ReportPeriodCodes == {<<>>, <<"A">>, <<"A", ":", "B">>}
FilterWords == {EmptyCode, AllCode, <<"A">>, <<"A">> \o Wildcard}

\* timeclock report <time> <codes>, from the periods of the time range on
ReportCodes(fcode) ==
    /\ op = "init"
    /\ \E r \in ReportOf(periods, fcode, tree) :
            out' = r /\ op' = (IF r.Periods = <<>> THEN "NoPeriods" ELSE "Report")
    /\ pre' = periods
    /\ arg' = <<fcode>>
    /\ UNCHANGED <<log, text, origin, parsed, tree, periods, heap, ptrs, runs>>

NextReport ==
    \/ \E codes \in ReportTrees : Generate(codes)
    \/ \E code \in ReportPeriodCodes :
            AddPeriod(Date(2024, 12, 30, 9, 0) + 60 * Len(periods), 60, code, MaxPeriods)
    \/ \E fcode \in SeqsUpTo(FilterWords, MaxFilters) : ReportCodes(fcode)

SpecReport == InitFile /\ [][NextReport]_vars

\* C22: the filter "empty" selects exactly the periods with a blank code,
\* "all" exactly the periods with a code, and both together every period of
\* the time range once, in either order.
EmptyAndAll ==
    (op \in {"Report", "NoPeriods"} /\ pre = periods) =>
        /\ arg[1] = <<EmptyCode>> => out.Periods = FilterInPeriods(pre, <<>>)
        /\ arg[1] \in {<<AllCode>>, <<>>} => out.Periods = FilterOutPeriods(pre, <<>>)
        /\ arg[1] \in {<<EmptyCode, AllCode>>, <<AllCode, EmptyCode>>} => out.Periods = pre

\* a period without code and one with a code, reported with "all" and then
\* "empty": both are in the report, in the order of their begins
EmptyAndAllWitness ==
    /\ op = "Report"
    /\ arg = <<<<AllCode, EmptyCode>>>>
    /\ Len(pre) = 2
    /\ pre[1].Code = <<>>
    /\ pre[2].Code # <<>>
    /\ out.Periods = pre

\* C27: every period of the time range is at most once in the period list of
\* the report, for every list of filter codes in every order, and no duration
\* is counted twice in the running totals.
NoPeriodTwice ==
    op = "Report" =>
        /\ \A x \in Range(out.Periods) : Count(out.Periods, x) <= Count(pre, x)
        /\ \A c \in DOMAIN out.Totals :
                out.Totals[c] <= SumSeq([i \in 1..Len(pre) |->
                                            IF pre[i].Code = c THEN Length(pre[i]) ELSE 0])

-----------------------------------------------------------------------------
(* The weekday slots of a week *)

\* the days since Monday, counted from 1970-01-01, a Thursday
SinceMonday(t) == (DayOf(t) + 3) % 7

\* the durations of the periods of ps with code in cs that begin d days after
\* a Monday
DayLengths(ps, cs, d) ==
    SumSeq([i \in 1..Len(ps) |->
                IF ps[i].Code \in cs /\ SinceMonday(ps[i].Begin) = d THEN Length(ps[i]) ELSE 0])

\* two weeks of days from Monday 2024-12-23 on, each at its first and its
\* last minute
SlotDays == 0..13
SlotMinutes == {0, 24 * 60 - 1}

\* C23: a period that begins on a Monday is accumulated in slot 0, on a
\* Tuesday in slot 1, ..., on a Sunday in slot 6; the slot is in 0..6 and slot
\* 7 only ever holds the week total.
WeekdaySlots ==
    /\ \A k \in SlotDays, m \in SlotMinutes :
            Slot([Begin |-> Date(2024, 12, 23, 0, 0) + 24 * 60 * k + m]) = k % 7
    /\ op = "Report" =>
            \A i \in 1..Len(out.Weeks) :
                LET w == out.Weeks[i]
                IN  /\ \A p \in Range(w.Periods) : Slot(p) \in 0..6
                    /\ \A d \in 0..6 :
                            /\ w.Daily[d] = DayLengths(w.Periods, {p.Code : p \in Range(w.Periods)}, d)
                            /\ \A c \in DOMAIN w.Totals :
                                    w.Totals[c][d] = DayLengths(w.Periods, {c}, d)
                    /\ w.Daily[7] = SumSeq([j \in 1..Len(w.Periods) |-> Length(w.Periods[j])])

\* the week 2024/52 with a period on its Monday and a longer one on its Sunday
WeekdaySlotsWitness ==
    /\ op = "Report"
    /\ Len(out.Weeks) = 1
    /\ Key(out.Weeks[1]) = <<2024, 52>>
    /\ out.Weeks[1].Daily[0] = 30
    /\ out.Weeks[1].Daily[6] = 90
    /\ out.Weeks[1].Daily[7] = 120

-----------------------------------------------------------------------------
(* The periods of the weeks *)

\* C28: the weeks partition the sorted periods: every period is in exactly
\* one week, the one of the ISO (year, week) of its begin, with its whole
\* duration, also when it ends on another day or in another week; the period
\* lists of the weeks, one after the other, are the sorted periods; no week
\* is without period.
WeekPartition ==
    op = "Report" =>
        LET ws == out.Weeks
        IN  /\ Concat([i \in 1..Len(ws) |-> ws[i].Periods]) = out.Periods
            /\ \A i \in 1..Len(ws) :
                    /\ ws[i].Periods # <<>>
                    /\ \A p \in Range(ws[i].Periods) : ISOWeek(p.Begin) = Key(ws[i])
                    /\ ws[i].Daily[7] = SumSeq([j \in 1..Len(ws[i].Periods) |->
                                                    Length(ws[i].Periods[j])])
            /\ \A x \in Range(pre) :
                    /\ SumSeq([i \in 1..Len(ws) |-> Count(ws[i].Periods, x)]) = Count(pre, x)
                    /\ Cardinality({i \in 1..Len(ws) : x \in Range(ws[i].Periods)}) = 1

\* a period from Sunday 23:30 of the week 2024/52 to Monday 1:00 of the week
\* 2025/1, selected after a period of the week 2025/1: it is alone in the
\* first week, with its 90 minutes on the Sunday
WeekPartitionWitness ==
    /\ op = "Report"
    /\ Len(pre) = 2
    /\ ISOWeek(pre[2].Begin) = <<2024, 52>>
    /\ ISOWeek(pre[2].End) = <<2025, 1>>
    /\ ISOWeek(pre[1].Begin) = <<2025, 1>>
    /\ Len(out.Weeks) = 2
    /\ out.Weeks[1].Periods = <<pre[2]>>
    /\ out.Weeks[1].Daily[6] = 90
    /\ out.Weeks[2].Periods = <<pre[1]>>

-----------------------------------------------------------------------------
(* The fields of the parsed events *)

\* C24: every event of a successful parse has a code and a description
\* without space or tab at either end, a code without "]" and a code and a
\* description without newline, whatever the padding in the text; a line with
\* only spaces and tabs for a description parses with an empty description.
ParsedFieldsClean ==
    (op = "Parse" /\ parsed.err = "") =>
        /\ \A i \in 1..Len(parsed.log) :
                /\ Trimmed(parsed.log[i].Code)
                /\ Trimmed(parsed.log[i].Desc)
                /\ NoDelimiter(parsed.log[i].Code)
                /\ "\n" \notin Range(parsed.log[i].Desc)
        /\ text \in EmptyDescLines => (Len(parsed.log) = 1 /\ parsed.log[1].Desc = <<>>)

-----------------------------------------------------------------------------
(* readUntilTrimmed on its own: the cursor is at the start of a text and one *)
(* read is made, up to "]" as for a code or up to the newline as for a       *)
(* description                                                               *)

\* the longest text read
MaxTrim == 5

TrimChars == {" ", "\t", "x", "]", "\n"}
TrimTexts == SeqsUpTo(TrimChars, MaxTrim)
TrimDelimiters == {{"]"}, {"\n"}}

InitTrim ==
    /\ log = <<>>
    /\ text \in TrimTexts
    /\ origin = "raw"
    /\ parsed = None
    /\ op = "init"
    /\ arg = <<>>
    /\ pre = <<>>
    /\ out = <<>>
    /\ tree = NewTree
    /\ periods = <<>>
    /\ heap = <<>>
    /\ ptrs = <<>>
    /\ runs = 0

\* readUntilTrimmed(cr, chars) with cr at the start of the text
TrimRead(chars) ==
    /\ op = "init"
    /\ out' = readUntilTrimmed(text, NewCharReader, chars)
    /\ arg' = <<chars>>
    /\ op' = "Trim"
    /\ UNCHANGED <<log, text, origin, parsed, pre, tree, periods, heap, ptrs, runs>>

NextTrim == \E chars \in TrimDelimiters : TrimRead(chars)

SpecTrim == InitTrim /\ [][NextTrim]_vars

\* str without the spaces and tabs at its two ends
RECURSIVE StripLeft(_)
StripLeft(str) == IF str # <<>> /\ Head(str) \in WS THEN StripLeft(Tail(str)) ELSE str

RECURSIVE StripRight(_)
StripRight(str) ==
    IF str # <<>> /\ str[Len(str)] \in WS THEN StripRight(Prefix(str, Len(str) - 1)) ELSE str

\* the places of the characters of chars in t
Delimiters(t, chars) == {i \in 1..Len(t) : t[i] \in chars}

\* C30: for a text that holds a delimiter, readUntilTrimmed returns the
\* characters before the first delimiter without any of the spaces and tabs at
\* their two ends and leaves the cursor on the delimiter; for a text without
\* delimiter it returns UnexpectedEnd.
TrimsBothEnds ==
    op = "Trim" =>
        LET D == Delimiters(text, arg[1])
        IN  IF D = {} THEN out.err = "UnexpectedEnd"
            ELSE LET k == CHOOSE i \in D : \A j \in D : i <= j
                 IN  /\ out.err = ""
                     /\ out.str = StripLeft(StripRight(Prefix(text, k - 1)))
                     /\ out.cr.i = k
                     /\ C(text, out.cr) \in arg[1]

-----------------------------------------------------------------------------
(* main.go: the runs of the program.  text is the log file; a run reads it, *)
(* parses and sorts the log, does what its command word says and, when the  *)
(* switch on the command word is left at its end, writes the file again.    *)

\* the most runs of the program on one log file
MaxRuns == 2

\* t.Round(6 * time.Minute): the nearest multiple of six minutes, halves up
Round(t) == ((t + 3) \div 6) * 6

\* the log files the model starts with: a new, empty file, a file with a
\* comment only, files with one and with two events
SheetEvent(h) == [At |-> Date(2023, 7, 6, h, 0), Code |-> <<"A">>, Desc |-> <<"d">>]
Sheets ==
    {<<>>, <<"#", "x", "\n">>, Format(<<SheetEvent(9)>>),
     Format(<<SheetEvent(10), SheetEvent(9)>>)}

\* a file that does not parse
BadSheet == <<"x", "\n">>

\* the arguments of a run after the command word.  times are the times the
\* date parser finds in them (none, or one), code the time code and desc the
\* rest of the words, as ParseLine tells them apart.
NoLine == [times |-> <<>>, code |-> <<>>, desc |-> <<>>]
Lines ==
    {[times |-> <<Date(2023, 7, 6, 8, 0)>>, code |-> <<>>, desc |-> <<>>],
     [times |-> <<Date(2023, 7, 6, 9, 58)>>, code |-> <<"B">>, desc |-> <<"e">>],
     [times |-> <<Date(2023, 7, 6, 17, 33)>>, code |-> <<>>, desc |-> <<"e">>],
     [times |-> <<>>, code |-> <<>>, desc |-> <<"e">>]}
LineTimes == {l.times : l \in Lines}
WordLists == {<<>>, <<<<"B">>>>, <<<<"e">>, <<"f">>>>}
ReportTimes == {<<>>, <<Date(2023, 7, 6, 8, 0)>>,
                <<Date(2023, 7, 6, 12, 0), Date(2023, 7, 6, 9, 30)>>}
ReportFilters == {<<>>, <<EmptyCode>>}

InitMain ==
    /\ log = <<>>
    /\ text \in Sheets \cup {BadSheet}
    /\ origin = "none"
    /\ parsed = None
    /\ op = "init"
    /\ arg = <<>>
    /\ pre = <<>>
    /\ out = <<>>
    /\ tree = NewTree
    /\ periods = <<>>
    /\ heap = <<>>
    /\ ptrs = <<>>
    /\ runs = 0

\* strings.Join(os.Args[2:], " ")
RECURSIVE JoinWords(_)
JoinWords(words) ==
    IF words = <<>> THEN <<>>
    ELSE IF Len(words) = 1 THEN words[1]
    ELSE words[1] \o <<" ">> \o JoinWords(Tail(words))

\* the first event of the log is taken for the last
LastIsFirst(s) == s[1]

\* last = log[len(log)-1], for a log with events; last is nil for one without
Last(s) == s[Len(s)]

\* no time is before another
BeforeNever(t, u) == FALSE

\* t.Before(u)
Before(t, u) == t < u

\* the first event is changed
EditedFirst(s, field, v) == [s EXCEPT ![1][field] = v]

\* last.At = v, last.Code = v or last.Desc = v: last points into the log
Edited(s, field, v) == [s EXCEPT ![Len(s)][field] = v]

\* how main ends.  Leave: with return, os.Exit(1) or a panic inside the
\* switch, the log s not written; Through: the switch is left at its end and
\* the log s written.  name tells the command and how it ended, o is what a
\* report printed.
Leave(name, s, o) == [op |-> name, log |-> s, out |-> o, write |-> FALSE]
Through(name, s) == [op |-> name, log |-> s, out |-> <<>>, write |-> TRUE]

\* the report of the sorted log s: the events after the one time or between
\* the two times, their periods, the filters, and return
MainReport(s, cmd, t) ==
    IF cmd.times = <<>> THEN {Leave("report.NoTime", s, <<>>)}
    ELSE LET all == IF Len(cmd.times) = 1
                    THEN PairUp(After(s, cmd.times[1]))
                    ELSE PairUp(Between(s, cmd.times[1], cmd.times[2]))
         IN  {Leave(IF r.Periods = <<>> THEN "NoPeriods" ELSE "Report", s, r) :
                    r \in ReportOf(all, cmd.fcode, t)}

MainInfo(s) == IF s = <<>> THEN Leave("info.NoEvents", s, <<>>) ELSE Through("info", s)

MainTime(s, times) ==
    IF s = <<>> THEN Leave("time.NoEvents", s, <<>>)
    ELSE IF times = <<>> THEN Leave("time.NoTime", s, <<>>)
    ELSE Through("time", Edited(s, "At", Round(times[1])))

MainCode(s, words) ==
    IF s = <<>> THEN Leave("code.NoEvents", s, <<>>)
    ELSE Through("code", Edited(s, "Code", JoinWords(words)))

MainDesc(s, words) ==
    IF s = <<>> THEN Leave("desc.NoEvents", s, <<>>)
    ELSE Through("desc", Edited(s, "Desc", JoinWords(words)))

MainStatus(s) ==
    IF s = <<>> THEN Leave("status.NoEvents", s, <<>>) ELSE Leave("status", s, <<>>)

MainTest(s, line) ==
    IF line = NoLine THEN Leave("test.NoArgs", s, <<>>)
    ELSE IF line.times = <<>> THEN Leave("test.NoTime", s, <<>>)
    ELSE Leave("test", s, <<>>)

\* the default case of main's switch on the sorted log s: t, c, d :=
\* ParseLine(...); old := last; if t.Before(old.At) {...}; log = append(log,
\* last).  last is nil for a log without events, and old.At then ends the run
\* with a panic.
Default(s, line) ==
    IF line.times = <<>> THEN Leave("NoTime", s, <<>>)
    ELSE IF s = <<>> THEN Leave("Panic", s, <<>>)
    ELSE IF Before(Round(line.times[1]), Last(s).At) THEN Leave("Rejected", s, <<>>)
    ELSE Through("ClockIn",
                 Append(s, [At |-> Round(line.times[1]), Code |-> line.code, Desc |-> line.desc]))

\* main from the sorted log s on: the report, or the switch on the command word
Switch(cmd, s, t) ==
    CASE cmd.name = "report" -> MainReport(s, cmd, t)
      [] cmd.name = "info"   -> {MainInfo(s)}
      [] cmd.name = "time"   -> {MainTime(s, cmd.times)}
      [] cmd.name = "code"   -> {MainCode(s, cmd.words)}
      [] cmd.name = "desc"   -> {MainDesc(s, cmd.words)}
      [] cmd.name = "status" -> {MainStatus(s)}
      [] cmd.name = "test"   -> {MainTest(s, cmd.line)}
      [] OTHER               -> {Default(s, cmd.line)}

\* the file is written whatever the command
SheetAlways(t, o) == Format(o.log)

\* the end of main: sheetF.Truncate(0), Seek(0, 0), log.Format(sheetF), that
\* a run reaches only through the end of the switch
Sheet(t, o) == IF o.write THEN Format(o.log) ELSE t

\* one run of the program with the command cmd; a is what the model records
\* of its arguments
Run(cmd, a) ==
    /\ runs' = runs + 1
    /\ parsed' = parseTimeLog(text)
    /\ arg' = a
    /\ IF parsed'.err # ""
       THEN op' = "ParseFailed" /\ pre' = <<>> /\ out' = <<>> /\ UNCHANGED <<log, text, origin>>
       ELSE \E s \in Sort(parsed'.log) : \E o \in Switch(cmd, s, tree) :
                /\ pre' = s
                /\ op' = o.op
                /\ log' = o.log
                /\ out' = o.out
                /\ text' = Sheet(text, o)
                /\ origin' = (IF text' = text THEN origin ELSE "format")
    /\ UNCHANGED <<tree, periods, heap, ptrs>>

\* timeclock <time> [code] [description]
ClockIn(line) ==
    /\ runs < MaxRuns
    /\ Run([name |-> "", line |-> line],
           IF line.times = <<>> THEN <<>> ELSE <<Round(line.times[1]), line.code, line.desc>>)

\* timeclock info
InfoRun ==
    /\ runs < MaxRuns
    /\ Run([name |-> "info"], <<>>)

\* timeclock time <time>
TimeRun(times) ==
    /\ runs < MaxRuns
    /\ Run([name |-> "time", times |-> times],
           IF times = <<>> THEN <<>> ELSE <<Round(times[1])>>)

\* timeclock code <words>
CodeRun(words) ==
    /\ runs < MaxRuns
    /\ Run([name |-> "code", words |-> words], <<JoinWords(words)>>)

\* timeclock desc <words>, timeclock note <words>
DescRun(words) ==
    /\ runs < MaxRuns
    /\ Run([name |-> "desc", words |-> words], <<JoinWords(words)>>)

\* timeclock status
StatusRun ==
    /\ runs < MaxRuns
    /\ Run([name |-> "status"], <<>>)

\* timeclock test <time> [code] [description]
TestRun(line) ==
    /\ runs < MaxRuns
    /\ Run([name |-> "test", line |-> line], <<line>>)

\* timeclock report <time> [time] [codes]
ReportRun(times, fcode) ==
    /\ runs < MaxRuns
    /\ Run([name |-> "report", times |-> times, fcode |-> fcode], <<times, fcode>>)

NextMain ==
    \/ \E line \in Lines : ClockIn(line)
    \/ InfoRun
    \/ \E times \in LineTimes : TimeRun(times)
    \/ \E words \in WordLists : CodeRun(words)
    \/ \E words \in WordLists : DescRun(words)
    \/ StatusRun
    \/ \E line \in Lines \cup {NoLine} : TestRun(line)
    \/ \E times \in ReportTimes, fcode \in ReportFilters : ReportRun(times, fcode)

SpecMain == InitMain /\ [][NextMain]_vars

\* C20: a run with no command word and a time in its input appends exactly
\* one event to the log and rewrites the file with it, from every log, one
\* without events included (the time not being before the last event's).
ClockInAppends ==
    (/\ op \in {"ClockIn", "Panic", "Rejected"}
     /\ (pre = <<>> \/ arg[1] >= pre[Len(pre)].At))
        => /\ log = Append(pre, [At |-> arg[1], Code |-> arg[2], Desc |-> arg[3]])
           /\ text = Format(log)

-----------------------------------------------------------------------------
(* The commands that only read *)

\* how a run of status, of test and of report can end
ReadOnlyEnds ==
    {"status", "status.NoEvents", "test", "test.NoArgs", "test.NoTime",
     "Report", "NoPeriods", "report.NoTime"}

\* C21: a run of status, test or report leaves the text of the log file as it
\* was, however the run ends.
ReadOnlyCommands ==
    [][(\/ op' \in ReadOnlyEnds
        \/ op' = "ParseFailed")
            => text' = text /\ parseTimeLog(text') = parsed']_vars

\* status has printed the last event of a file that is not in the order of
\* its times: written again, the file would not be the same
ReadOnlyWitness ==
    /\ op = "status"
    /\ parsed.log # pre
    /\ parseTimeLog(text).log = parsed.log
    /\ text # Format(log)

-----------------------------------------------------------------------------
(* A clock-in before the last event *)

\* the latest time of the events of s
LatestAt(s) == Max({s[i].At : i \in 1..Len(s)})

\* C25: a clock-in with a time before the time of the last event of the
\* sorted log is rejected: the file keeps its text and no event is added.
EarlierRejected ==
    [][(/\ op' \in {"ClockIn", "Panic", "Rejected"}
        /\ pre' # <<>>
        /\ arg'[1] < LatestAt(pre'))
            => /\ op' = "Rejected"
               /\ text' = text
               /\ log' = pre'
               /\ Len(parseTimeLog(text').log) = Len(pre')]_vars

\* a clock-in at 8:00 on a file whose events are at 10:00 and 9:00, in that
\* order: rejected, and the file is still not in the order of its times
EarlierRejectedWitness ==
    /\ op = "Rejected"
    /\ arg[1] < LatestAt(pre)
    /\ Len(pre) = 2
    /\ parsed.log # pre
    /\ parseTimeLog(text).log = parsed.log

-----------------------------------------------------------------------------
(* The times of the clock-ins *)

\* C26: a clock-in that succeeds, after any runs, appends an event whose time
\* is not before the time of any event the file held at that run; and when
\* the events of the file were in the order of their times, the events of the
\* file written are too, the new one last.
ClockInsAscend ==
    op = "ClockIn" =>
        LET e == [At |-> arg[1], Code |-> arg[2], Desc |-> arg[3]]
        IN  /\ pre # <<>>
            /\ log = Append(pre, e)
            /\ \A i \in 1..Len(parsed.log) : parsed.log[i].At <= e.At
            /\ text = Format(log)
            /\ IsSorted(parsed.log) =>
                    /\ parseTimeLog(text).err = ""
                    /\ parseTimeLog(text).log = Append(parsed.log, e)
                    /\ IsSorted(parseTimeLog(text).log)

\* a clock-in at 10:00 on a file with the events 9:00 and, after it, 8:00, as
\* a time command left it
ClockInsAscendWitness ==
    /\ op = "ClockIn"
    /\ runs >= 2
    /\ ~IsSorted(parsed.log)
    /\ Len(log) = 3
    /\ log[1].At = Date(2023, 7, 6, 8, 0)
    /\ log[3].At = Date(2023, 7, 6, 10, 0)

-----------------------------------------------------------------------------
(* The commands that change the last event *)

EditCommands == {"time", "code", "desc"}
EditField(name) == IF name = "time" THEN "At" ELSE IF name = "code" THEN "Code" ELSE "Desc"

\* how a run of info, time, code and desc/note can end
EditEnds ==
    EditCommands \cup
        {"info", "info.NoEvents", "time.NoEvents", "time.NoTime", "code.NoEvents", "desc.NoEvents"}
NoEventsEnds == {"info.NoEvents", "time.NoEvents", "code.NoEvents", "desc.NoEvents"}

\* l is s with the field of its last event set to v and nothing else changed
OneFieldOfLast(s, l, field, v) ==
    /\ Len(l) = Len(s)
    /\ \A i \in 1..(Len(s) - 1) : l[i] = s[i]
    /\ l[Len(s)][field] = v
    /\ \A f \in {"At", "Code", "Desc"} \ {field} : l[Len(s)][f] = s[Len(s)][f]

=============================================================================
